---- MODULE Spec2Model ----
(***************************************************************************)
(* A model of the text-to-SQL translator (src/nlp_parser.py), the safety   *)
(* gate and executor (src/query_executor.py) and the request handlers of   *)
(* the dashboard (src/app3.py).  Texts are TLA+ strings; every string      *)
(* operation of the source (lower, upper, strip, split, the substring test *)
(* `in`, and the regular expressions) is computed character by character.  *)
(***************************************************************************)
EXTENDS Integers, Sequences, FiniteSets, TLC

VARIABLES
    use_spacy,      \* TextToSQLParser.use_spacy, fixed by __init__
    nlp,            \* TextToSQLParser.nlp: the NER backend loaded by __init__
    sql_text,       \* the text handed to validate_query
    verdict,        \* what validate_query returned for sql_text
    nl_text,        \* the text handed to parse_query
    raised,         \* the step of that parse_query call that raised, if any
    parsed,         \* what parse_query returned for nl_text
    parse_calls,    \* the parse_query calls made so far: text and result
    query_history,  \* st.session_state.query_history
    connections,    \* the number of sqlite3.connect calls made so far
    db_received,    \* the SQL texts handed to pd.read_sql_query so far
    df,             \* the data execute_query returned last
    exec_metadata,  \* the metadata execute_query returned last
    requests,       \* the number of requests handled so far
    frames,         \* the call each thread is in: its position and its locals
    built           \* a direct call of a query builder: its arguments and its result

parserVars == <<use_spacy, nlp>>
gateVars == <<sql_text, verdict>>
parseVars == <<nl_text, raised, parsed, parse_calls>>
appVars == <<query_history, connections, db_received, df, exec_metadata, requests>>
concVars == <<frames>>
buildVars == <<built>>
vars == <<parserVars, gateVars, parseVars, appVars, concVars, buildVars>>

None == "<None>"

(***************************************************************************)
(* Bounds of the model.                                                    *)
(***************************************************************************)
MaxPieces == 3
MaxWords == 2
MaxRequests == 3
MaxThreads == 2
MaxEntities == 2

(***************************************************************************)
(* Characters and Python's str methods.                                    *)
(***************************************************************************)
\* the Python slice s[i-1:j], with 1-based inclusive positions i..j
Slice(s, i, j) ==
    IF i > Len(s) \/ j < i THEN ""
    ELSE SubSeq(s, i, IF j > Len(s) THEN Len(s) ELSE j)

CharAt(s, i) == Slice(s, i, i)

UpperOf ==
    "a" :> "A" @@ "b" :> "B" @@ "c" :> "C" @@ "d" :> "D" @@ "e" :> "E" @@
    "f" :> "F" @@ "g" :> "G" @@ "h" :> "H" @@ "i" :> "I" @@ "j" :> "J" @@
    "k" :> "K" @@ "l" :> "L" @@ "m" :> "M" @@ "n" :> "N" @@ "o" :> "O" @@
    "p" :> "P" @@ "q" :> "Q" @@ "r" :> "R" @@ "s" :> "S" @@ "t" :> "T" @@
    "u" :> "U" @@ "v" :> "V" @@ "w" :> "W" @@ "x" :> "X" @@ "y" :> "Y" @@
    "z" :> "Z"

LowerOf ==
    "A" :> "a" @@ "B" :> "b" @@ "C" :> "c" @@ "D" :> "d" @@ "E" :> "e" @@
    "F" :> "f" @@ "G" :> "g" @@ "H" :> "h" @@ "I" :> "i" @@ "J" :> "j" @@
    "K" :> "k" @@ "L" :> "l" @@ "M" :> "m" @@ "N" :> "n" @@ "O" :> "o" @@
    "P" :> "p" @@ "Q" :> "q" @@ "R" :> "r" @@ "S" :> "s" @@ "T" :> "t" @@
    "U" :> "u" @@ "V" :> "v" @@ "W" :> "w" @@ "X" :> "x" @@ "Y" :> "y" @@
    "Z" :> "z"

IsLower(c) == c \in DOMAIN UpperOf
IsUpper(c) == c \in DOMAIN LowerOf
IsDigit(c) == c \in {"0", "1", "2", "3", "4", "5", "6", "7", "8", "9"}
IsSpace(c) == c \in {" ", "\n", "\t"}
IsWordChar(c) == IsLower(c) \/ IsUpper(c) \/ IsDigit(c) \/ c = "_"

\* the characters lo..hi of s, each replaced by its image under f if it has one
RECURSIVE MapChars(_, _, _, _)
MapChars(s, f, lo, hi) ==
    IF lo > hi THEN ""
    ELSE IF lo = hi
    THEN (IF CharAt(s, lo) \in DOMAIN f THEN f[CharAt(s, lo)] ELSE CharAt(s, lo))
    ELSE MapChars(s, f, lo, (lo + hi) \div 2) \o MapChars(s, f, (lo + hi) \div 2 + 1, hi)

\* str.upper() and str.lower()
Upper(s) == MapChars(s, UpperOf, 1, Len(s))
Lower(s) == MapChars(s, LowerOf, 1, Len(s))

Min(S) == CHOOSE i \in S : \A j \in S : i <= j
Max(S) == CHOOSE i \in S : \A j \in S : i >= j

\* the Python test `k in s`
Contains(s, k) ==
    \E i \in 1..(Len(s) - Len(k) + 1) : SubSeq(s, i, i + Len(k) - 1) = k

\* s.find(k, from - 1) + 1: the first position from `from` on where k occurs, or 0
Find(s, k, from) ==
    LET hits == {i \in from..(Len(s) - Len(k) + 1) : SubSeq(s, i, i + Len(k) - 1) = k}
    IN  IF hits = {} THEN 0 ELSE Min(hits)

\* str.count(c) for a single character c
Count(s, c) == Cardinality({i \in 1..Len(s) : CharAt(s, i) = c})

\* str.strip()
Strip(s) ==
    LET solid == {i \in 1..Len(s) : ~IsSpace(CharAt(s, i))}
    IN  IF solid = {} THEN ""
        ELSE SubSeq(s, Min(solid), Max(solid))

\* str.split(): the maximal runs of non-whitespace characters, in order
Split(s) ==
    LET solid(i) == i >= 1 /\ i <= Len(s) /\ SubSeq(s, i, i) \notin {" ", "\n", "\t"}
        starts == {i \in 1..Len(s) : solid(i) /\ ~solid(i - 1)}
        stops == {i \in 1..Len(s) : solid(i) /\ ~solid(i + 1)}
        Nth(S, k) == CHOOSE i \in S : Cardinality({j \in S : j <= i}) = k
    IN  [k \in 1..Cardinality(starts) |-> SubSeq(s, Nth(starts, k), Nth(stops, k))]

\* sep.join(words)
RECURSIVE JoinRange(_, _, _, _)
JoinRange(words, sep, lo, hi) ==
    IF lo > hi THEN ""
    ELSE IF lo = hi THEN words[lo]
    ELSE JoinRange(words, sep, lo, (lo + hi) \div 2) \o sep
         \o JoinRange(words, sep, (lo + hi) \div 2 + 1, hi)

Join(words, sep) == JoinRange(words, sep, 1, Len(words))

(***************************************************************************)
(* TextToSQLParser: the tables built by __init__.                          *)
(***************************************************************************)
Row(table, names) == [table |-> table, names |-> names]

schema ==
    <<Row("customers", <<"customer_id", "name", "email", "city", "state", "phone", "created_date">>),
      Row("products", <<"product_id", "name", "category", "price", "stock_quantity", "description">>),
      Row("orders", <<"order_id", "customer_id", "order_date", "total_amount", "status", "shipping_city">>),
      Row("order_items", <<"item_id", "order_id", "product_id", "quantity", "unit_price">>)>>

query_patterns ==
    <<Row("select", <<"show", "list", "get", "find", "display", "retrieve">>),
      Row("aggregate", <<"total", "sum", "count", "average", "avg", "max", "min">>),
      Row("filter", <<"from", "in", "where", "with", "having">>),
      Row("time", <<"after", "before", "between", "since", "until">>),
      Row("group", <<"by", "per", "each", "grouped">>)>>

entity_mappings ==
    <<Row("customers", <<"customer", "customers", "client", "clients", "user", "users">>),
      Row("products", <<"product", "products", "item", "items">>),
      Row("orders", <<"order", "orders", "purchase", "purchases", "sale", "sales">>),
      Row("order_items", <<"order item", "order items", "item details">>)>>

column_aliases ==
    <<<<"customer name", "customers.name">>,
      <<"product name", "products.name">>,
      <<"price", "products.price">>,
      <<"total", "orders.total_amount">>,
      <<"amount", "orders.total_amount">>,
      <<"date", "orders.order_date">>,
      <<"city", "customers.city">>,
      <<"category", "products.category">>,
      <<"status", "orders.status">>,
      <<"quantity", "order_items.quantity">>>>

\* any(k in text for k in keywords)
AnyIn(keywords, text) == \E k \in 1..Len(keywords) : Contains(text, keywords[k])

(***************************************************************************)
(* preprocess_query.                                                       *)
(***************************************************************************)
\* \b at the gap in front of position i
BoundaryAt(s, i) ==
    LET before == i > 1 /\ IsWordChar(CharAt(s, i - 1))
        after == i <= Len(s) /\ IsWordChar(CharAt(s, i))
    IN  before # after

\* re.sub(r'\b<word>\b', repl, s), applied to s from position `from` on:
\* the leftmost match is replaced and the rest is treated the same way
RECURSIVE SubWord(_, _, _, _)
SubWord(s, word, repl, from) ==
    LET hits == {i \in from..(Len(s) - Len(word) + 1) :
                    /\ SubSeq(s, i, i + Len(word) - 1) = word
                    /\ BoundaryAt(s, i)
                    /\ BoundaryAt(s, i + Len(word))}
    IN  IF hits = {} THEN Slice(s, from, Len(s))
        ELSE Slice(s, from, Min(hits) - 1) \o repl
             \o SubWord(s, word, repl, Min(hits) + Len(word))

\* a normalization that keeps the case of the letters
preprocess_query_keep_case(query) ==
    SubWord(SubWord(SubWord(Strip(query),
        "showing", "show", 1), "listing", "list", 1), "getting", "get", 1)

preprocess_query(query) ==
    SubWord(SubWord(SubWord(Strip(Lower(query)),
        "showing", "show", 1), "listing", "list", 1), "getting", "get", 1)

(***************************************************************************)
(* Entity extraction.                                                      *)
(***************************************************************************)
Entities(locations, dates, numbers, organizations) ==
    [locations |-> locations, dates |-> dates, numbers |-> numbers,
     organizations |-> organizations]

\* the last position of the run of characters of one class that starts at i
\* (i - 1 when the character at i is not of the class)
RECURSIVE DigitRunEnd(_, _)
DigitRunEnd(s, i) ==
    IF i <= Len(s) /\ IsDigit(CharAt(s, i)) THEN DigitRunEnd(s, i + 1) ELSE i - 1

RECURSIVE LowerRunEnd(_, _)
LowerRunEnd(s, i) ==
    IF i <= Len(s) /\ IsLower(CharAt(s, i)) THEN LowerRunEnd(s, i + 1) ELSE i - 1

RECURSIVE SpaceRunEnd(_, _)
SpaceRunEnd(s, i) ==
    IF i <= Len(s) /\ IsSpace(CharAt(s, i)) THEN SpaceRunEnd(s, i + 1) ELSE i - 1

\* a pattern of \d and literal characters, written with 'd' for \d
RECURSIVE ShapeAt(_, _, _, _)
ShapeAt(s, i, shape, k) ==
    IF k > Len(shape) THEN TRUE
    ELSE IF i + k - 1 > Len(s) THEN FALSE
    ELSE LET c == CharAt(s, i + k - 1)
         IN  /\ IF CharAt(shape, k) = "d" THEN IsDigit(c) ELSE c = CharAt(shape, k)
             /\ ShapeAt(s, i, shape, k + 1)

date_patterns == <<"dddd-dd-dd", "dd/dd/dddd", "dd-dd-dddd">>

\* \b\d+(?:\.\d+)?\b : the position where a match starting at i ends, or 0
NumberEnd(s, i) ==
    IF ~(IsDigit(CharAt(s, i)) /\ BoundaryAt(s, i)) THEN 0
    ELSE LET j == DigitRunEnd(s, i)
             k == DigitRunEnd(s, j + 2)
         IN  IF CharAt(s, j + 1) = "." /\ k >= j + 2 /\ BoundaryAt(s, k + 1) THEN k
             ELSE IF BoundaryAt(s, j + 1) THEN j
             ELSE 0

\* \b[A-Z][a-z]+(?:\s+[A-Z][a-z]+)?\b : where a match starting at i ends, or 0
CityEnd(s, i) ==
    IF ~(IsUpper(CharAt(s, i)) /\ BoundaryAt(s, i)) THEN 0
    ELSE LET j == LowerRunEnd(s, i + 1)
             gap == SpaceRunEnd(s, j + 1)
             k == LowerRunEnd(s, gap + 2)
         IN  IF j < i + 1 THEN 0
             ELSE IF /\ gap >= j + 1
                     /\ IsUpper(CharAt(s, gap + 1))
                     /\ k >= gap + 2
                     /\ BoundaryAt(s, k + 1)
                  THEN k
             ELSE IF BoundaryAt(s, j + 1) THEN j
             ELSE 0

MatchEnd(pattern, s, i) ==
    IF pattern = "number" THEN NumberEnd(s, i)
    ELSE IF pattern = "city" THEN CityEnd(s, i)
    ELSE IF ShapeAt(s, i, pattern, 1) THEN i + Len(pattern) - 1 ELSE 0

\* re.findall(pattern, s): the leftmost matches that do not overlap
RECURSIVE FindAll(_, _, _)
FindAll(pattern, s, from) ==
    LET hits == {i \in from..Len(s) : MatchEnd(pattern, s, i) # 0}
    IN  IF hits = {} THEN <<>>
        ELSE <<Slice(s, Min(hits), MatchEnd(pattern, s, Min(hits)))>>
             \o FindAll(pattern, s, MatchEnd(pattern, s, Min(hits)) + 1)

extract_entities_basic(query) ==
    Entities(FindAll("city", query, 1),
             FindAll(date_patterns[1], query, 1) \o FindAll(date_patterns[2], query, 1)
                 \o FindAll(date_patterns[3], query, 1),
             FindAll("number", query, 1),
             <<>>)

(***************************************************************************)
(* The NER backend is a library outside the repository.  A backend is      *)
(* modelled by the label it gives to each token; the backends considered   *)
(* are a gazetteer that knows cities, dates and numbers, and a backend     *)
(* that labels schema words.                                               *)
(***************************************************************************)
NerBackends == {"gazetteer", "schema_words"}

NerLabel(backend, token) ==
    IF backend = "gazetteer"
    THEN IF token \in {"bangalore", "mumbai", "paris"} THEN "GPE"
         ELSE IF ShapeAt(token, 1, "dddd-dd-dd", 1) \/ token = "yesterday" THEN "DATE"
         ELSE IF token # "" /\ DigitRunEnd(token, 1) = Len(token) THEN "CARDINAL"
         ELSE IF token = "amazon" THEN "ORG"
         ELSE None
    ELSE IF token \in {"city", "delhi"} THEN "LOC"
         ELSE IF token \in {"after", "before", "updated"} THEN "TIME"
         ELSE IF token \in {"total", "count"} THEN "QUANTITY"
         ELSE IF token \in {"sales", "orders"} THEN "ORG"
         ELSE IF token \in {"customers", "show"} THEN "PERSON"
         ELSE None

\* doc.ents of self.nlp(query): the labelled tokens, in text order
RECURSIVE DocEnts(_, _)
DocEnts(backend, tokens) ==
    IF tokens = <<>> THEN <<>>
    ELSE LET label == NerLabel(backend, tokens[1])
         IN  (IF label = None THEN <<>> ELSE <<[text |-> tokens[1], label_ |-> label]>>)
             \o DocEnts(backend, Tail(tokens))

RECURSIVE EntTexts(_, _)
EntTexts(ents, labels) ==
    IF ents = <<>> THEN <<>>
    ELSE (IF ents[1].label_ \in labels THEN <<ents[1].text>> ELSE <<>>)
         \o EntTexts(Tail(ents), labels)

extract_entities_spacy(self, query) ==
    LET ents == DocEnts(self.nlp, Split(query))
    IN  Entities(EntTexts(ents, {"GPE", "LOC"}),
                 EntTexts(ents, {"DATE", "TIME"}),
                 EntTexts(ents, {"MONEY", "QUANTITY", "CARDINAL"}),
                 EntTexts(ents, {"ORG"}))

(***************************************************************************)
(* Intent classification.                                                  *)
(***************************************************************************)
RECURSIVE FirstTable(_, _, _)
FirstTable(mappings, query_lower, t) ==
    IF t > Len(mappings) THEN "customers"
    ELSE IF AnyIn(mappings[t].names, query_lower) THEN mappings[t].table
    ELSE FirstTable(mappings, query_lower, t + 1)

\* a scan that tries orders before products
identify_table_orders_first(query) ==
    FirstTable(<<entity_mappings[1], entity_mappings[3], entity_mappings[2],
                 entity_mappings[4]>>, Lower(query), 1)

\* a scan that tries the tables from the last one to the first
identify_table_last_first(query) ==
    FirstTable(<<entity_mappings[4], entity_mappings[3], entity_mappings[2],
                 entity_mappings[1]>>, Lower(query), 1)

identify_table(query) == FirstTable(entity_mappings, Lower(query), 1)

\* a classifier that looks for the keywords among the words of the text
identify_query_type_whole_words(query) ==
    LET words == Split(Lower(query))
    IN  IF \E k \in 1..Len(query_patterns[2].names), i \in 1..Len(words) :
               words[i] = query_patterns[2].names[k]
        THEN "aggregate" ELSE "select"

identify_query_type(query) ==
    IF AnyIn(query_patterns[2].names, Lower(query)) THEN "aggregate" ELSE "select"

(***************************************************************************)
(* Query construction.                                                     *)
(***************************************************************************)
known_cities ==
    {"bangalore", "mumbai", "delhi", "chennai", "hyderabad", "pune", "kolkata", "ahmedabad"}

\* a filter with a predicate for every location, known city or not
LocationFiltersUnchecked(locations) ==
    [i \in 1..Len(locations) |-> "customers.city = '" \o locations[i] \o "'"]

\* [f"customers.city = '{location}'" for each known city among the locations]
RECURSIVE LocationFilters(_)
LocationFilters(locations) ==
    IF locations = <<>> THEN <<>>
    ELSE (IF Lower(locations[1]) \in known_cities
          THEN <<"customers.city = '" \o locations[1] \o "'">> ELSE <<>>)
         \o LocationFilters(Tail(locations))

\* a rule that tries "before" first
DateFiltersBeforeFirst(dates, query_lower) ==
    LET op == IF Contains(query_lower, "before") THEN "<"
              ELSE IF Contains(query_lower, "after") THEN ">"
              ELSE "="
    IN  [i \in 1..Len(dates) |-> "orders.order_date " \o op \o " '" \o dates[i] \o "'"]

\* lines 190-197
DateFilters(dates, query_lower) ==
    LET op == IF Contains(query_lower, "after") THEN ">"
              ELSE IF Contains(query_lower, "before") THEN "<"
              ELSE "="
    IN  [i \in 1..Len(dates) |-> "orders.order_date " \o op \o " '" \o dates[i] \o "'"]

\* a filter with one predicate for every status keyword found
StatusFiltersEvery(query_lower) ==
    (IF Contains(query_lower, "completed") THEN <<"orders.status = 'Completed'">> ELSE <<>>)
    \o (IF Contains(query_lower, "processing") THEN <<"orders.status = 'Processing'">>
        ELSE <<>>)
    \o (IF Contains(query_lower, "shipped") THEN <<"orders.status = 'Shipped'">> ELSE <<>>)
    \o (IF Contains(query_lower, "delivered") THEN <<"orders.status = 'Delivered'">>
        ELSE <<>>)

\* lines 200-207
StatusFilters(query_lower) ==
    IF Contains(query_lower, "completed") THEN <<"orders.status = 'Completed'">>
    ELSE IF Contains(query_lower, "processing") THEN <<"orders.status = 'Processing'">>
    ELSE IF Contains(query_lower, "shipped") THEN <<"orders.status = 'Shipped'">>
    ELSE IF Contains(query_lower, "delivered") THEN <<"orders.status = 'Delivered'">>
    ELSE <<>>

\* lines 153-156: the columns of the alias phrases found, in alias order
RECURSIVE AliasColumns(_, _)
AliasColumns(query_lower, k) ==
    IF k > Len(column_aliases) THEN <<>>
    ELSE (IF Contains(query_lower, column_aliases[k][1])
          THEN <<column_aliases[k][2]>> ELSE <<>>)
         \o AliasColumns(query_lower, k + 1)

\* a clause that takes the column of the first alias phrase found only
SelectClauseFirstAlias(query_lower, main_table) ==
    IF Contains(query_lower, "all") \/ Contains(query_lower, "everything")
    THEN main_table \o ".*"
    ELSE IF AliasColumns(query_lower, 1) = <<>> THEN main_table \o ".*"
    ELSE AliasColumns(query_lower, 1)[1]

\* a clause that takes the date of a customers query from the schema of
\* customers: its column created_date
SelectClauseSchemaDate(query_lower, main_table) ==
    IF Contains(query_lower, "all") \/ Contains(query_lower, "everything")
    THEN main_table \o ".*"
    ELSE IF AliasColumns(query_lower, 1) = <<>> THEN main_table \o ".*"
    ELSE LET columns == AliasColumns(query_lower, 1)
         IN  Join([i \in 1..Len(columns) |->
                      IF columns[i] = "orders.order_date" /\ main_table = "customers"
                      THEN "customers.created_date" ELSE columns[i]], ", ")

\* lines 149-161
SelectClause(query_lower, main_table) ==
    IF Contains(query_lower, "all") \/ Contains(query_lower, "everything")
    THEN main_table \o ".*"
    ELSE IF AliasColumns(query_lower, 1) = <<>> THEN main_table \o ".*"
    ELSE Join(AliasColumns(query_lower, 1), ", ")

\* a rule table without the chain to order_items and products
SelectJoinsNoChain(query_lower, main_table) ==
    IF main_table = "customers"
       /\ (Contains(query_lower, "order") \/ Contains(query_lower, "purchase"))
    THEN <<"LEFT JOIN orders ON customers.customer_id = orders.customer_id">>
    ELSE IF main_table = "orders"
    THEN <<"LEFT JOIN customers ON orders.customer_id = customers.customer_id">>
    ELSE <<>>

\* lines 164-176
SelectJoins(query_lower, main_table) ==
    IF main_table = "customers"
       /\ (Contains(query_lower, "order") \/ Contains(query_lower, "purchase"))
    THEN <<"LEFT JOIN orders ON customers.customer_id = orders.customer_id">>
    ELSE IF main_table = "orders"
    THEN <<"LEFT JOIN customers ON orders.customer_id = customers.customer_id">>
         \o (IF Contains(query_lower, "product") \/ Contains(query_lower, "item")
             THEN <<"LEFT JOIN order_items ON orders.order_id = order_items.order_id",
                    "LEFT JOIN products ON order_items.product_id = products.product_id">>
             ELSE <<>>)
    ELSE <<>>

build_select_query(query, main_table, entities) ==
    LET query_lower == Lower(query)
        joins == SelectJoins(query_lower, main_table)
        from_clause == IF joins # <<>> THEN main_table \o " " \o Join(joins, " ")
                       ELSE main_table
        where_conditions == LocationFilters(entities.locations)
                            \o DateFilters(entities.dates, query_lower)
                            \o StatusFilters(query_lower)
    IN  "SELECT " \o SelectClause(query_lower, main_table) \o " FROM " \o from_clause
        \o (IF where_conditions # <<>>
            THEN " WHERE " \o Join(where_conditions, " AND ") ELSE "")

\* the rules tried one after the other, each with both of its keywords
AggFunctionFlat(query_lower) ==
    LET Has(k) == Contains(query_lower, k)
    IN  IF (Has("total") \/ Has("sum")) /\ (Has("sales") \/ Has("amount"))
        THEN "SUM(orders.total_amount)"
        ELSE IF (Has("total") \/ Has("sum")) /\ Has("quantity")
        THEN "SUM(order_items.quantity)"
        ELSE IF Has("average") \/ Has("avg") THEN "AVG(orders.total_amount)"
        ELSE IF Has("count") /\ Has("customer") THEN "COUNT(DISTINCT customers.customer_id)"
        ELSE IF Has("count") /\ Has("order") THEN "COUNT(DISTINCT orders.order_id)"
        ELSE "COUNT(*)"

\* the quantity rule tried before the sales rule
AggFunctionQuantityFirst(query_lower) ==
    IF Contains(query_lower, "total") \/ Contains(query_lower, "sum")
    THEN IF Contains(query_lower, "quantity") THEN "SUM(order_items.quantity)"
         ELSE IF Contains(query_lower, "sales") \/ Contains(query_lower, "amount")
         THEN "SUM(orders.total_amount)"
         ELSE "COUNT(*)"
    ELSE IF Contains(query_lower, "average") \/ Contains(query_lower, "avg")
    THEN "AVG(orders.total_amount)"
    ELSE IF Contains(query_lower, "count")
    THEN IF Contains(query_lower, "customer") THEN "COUNT(DISTINCT customers.customer_id)"
         ELSE IF Contains(query_lower, "order") THEN "COUNT(DISTINCT orders.order_id)"
         ELSE "COUNT(*)"
    ELSE "COUNT(*)"

\* lines 222-236
AggFunction(query_lower) ==
    IF Contains(query_lower, "total") \/ Contains(query_lower, "sum")
    THEN IF Contains(query_lower, "sales") \/ Contains(query_lower, "amount")
         THEN "SUM(orders.total_amount)"
         ELSE IF Contains(query_lower, "quantity") THEN "SUM(order_items.quantity)"
         ELSE "COUNT(*)"
    ELSE IF Contains(query_lower, "average") \/ Contains(query_lower, "avg")
    THEN "AVG(orders.total_amount)"
    ELSE IF Contains(query_lower, "count")
    THEN IF Contains(query_lower, "customer") THEN "COUNT(DISTINCT customers.customer_id)"
         ELSE IF Contains(query_lower, "order") THEN "COUNT(DISTINCT orders.order_id)"
         ELSE "COUNT(*)"
    ELSE "COUNT(*)"

\* lines 239-247
GroupBy(query_lower) ==
    IF Contains(query_lower, "by city") \/ Contains(query_lower, "per city")
    THEN "customers.city"
    ELSE IF Contains(query_lower, "by category") \/ Contains(query_lower, "per category")
    THEN "products.category"
    ELSE IF Contains(query_lower, "by status") \/ Contains(query_lower, "per status")
    THEN "orders.status"
    ELSE IF Contains(query_lower, "by customer") \/ Contains(query_lower, "per customer")
    THEN "customers.name"
    ELSE None

\* a FROM clause that joins customers to every grouping by a customer column
AggFromJoinAlways(main_table, group_by, agg_function) ==
    IF group_by # None /\ Contains(group_by, "customers.")
    THEN "orders LEFT JOIN customers ON orders.customer_id = customers.customer_id"
    ELSE IF group_by # None /\ Contains(group_by, "products.")
    THEN "order_items LEFT JOIN products ON order_items.product_id = products.product_id"
         \o (IF Contains(agg_function, "orders.")
             THEN " LEFT JOIN orders ON order_items.order_id = orders.order_id" ELSE "")
    ELSE main_table

\* lines 250-256
AggFrom(main_table, group_by, agg_function) ==
    IF group_by # None /\ Contains(group_by, "customers.") /\ main_table # "customers"
    THEN "orders LEFT JOIN customers ON orders.customer_id = customers.customer_id"
    ELSE IF group_by # None /\ Contains(group_by, "products.")
    THEN "order_items LEFT JOIN products ON order_items.product_id = products.product_id"
         \o (IF Contains(agg_function, "orders.")
             THEN " LEFT JOIN orders ON order_items.order_id = orders.order_id" ELSE "")
    ELSE main_table

build_aggregate_query(query, main_table, entities) ==
    LET query_lower == Lower(query)
        agg_function == AggFunction(query_lower)
        group_by == GroupBy(query_lower)
        from_clause == AggFrom(main_table, group_by, agg_function)
        sql_query ==
            IF group_by # None
            THEN "SELECT " \o group_by \o ", " \o agg_function \o " as result FROM "
                 \o from_clause \o " GROUP BY " \o group_by
            ELSE "SELECT " \o agg_function \o " as result FROM " \o from_clause
        where_conditions == LocationFilters(entities.locations)
    IN  IF where_conditions # <<>> /\ ~Contains(sql_query, "WHERE")
        THEN sql_query \o " WHERE " \o Join(where_conditions, " AND ")
        ELSE sql_query

(***************************************************************************)
(* _calculate_confidence.  A confidence is counted in hundredths: 50 is    *)
(* the 0.5 of the source and 100 its 1.0.                                  *)
(***************************************************************************)
BaseConfidence == 50
EntityBonus == 20
KeywordBonus == 10
TableBonus == 15
FullConfidence == 100
FallbackConfidence == 30

\* min(confidence, 1.0)
Clamp(confidence) == IF confidence < FullConfidence THEN confidence ELSE FullConfidence

RECURSIVE RowsFound(_, _, _)
RowsFound(rows, text, k) ==
    IF k > Len(rows) THEN 0
    ELSE (IF AnyIn(rows[k].names, text) THEN 1 ELSE 0) + RowsFound(rows, text, k + 1)

AnyEntity(entities) ==
    \/ entities.locations # <<>>
    \/ entities.dates # <<>>
    \/ entities.numbers # <<>>
    \/ entities.organizations # <<>>

SummedConfidence(query, entities) ==
    BaseConfidence
    + (IF AnyEntity(entities) THEN EntityBonus ELSE 0)
    + KeywordBonus * RowsFound(query_patterns, query, 1)
    + TableBonus * RowsFound(entity_mappings, Lower(query), 1)

\* line 349 without the clamp
confidence_unclamped(query, entities) == SummedConfidence(query, entities)

\* a score that adds the table bonus once, however many tables are named
confidence_one_table_bonus(query, entities) ==
    Clamp(BaseConfidence
          + (IF AnyEntity(entities) THEN EntityBonus ELSE 0)
          + KeywordBonus * RowsFound(query_patterns, query, 1)
          + (IF RowsFound(entity_mappings, Lower(query), 1) > 0 THEN TableBonus ELSE 0))

calculate_confidence(query, entities) == Clamp(SummedConfidence(query, entities))

(***************************************************************************)
(* parse_query.  The steps inside its try block may raise; `raises` names  *)
(* the step that does, NoFault when none does.                             *)
(***************************************************************************)
NoFault == "<no fault>"

Steps ==
    {"preprocess_query", "extract_entities", "identify_table",
     "build_query", "_calculate_confidence"}

\* str(e) of the exception a step raises
ErrorText(step) == "error in " \o step

Result(sql, metadata) == [sql_query |-> sql, metadata |-> metadata]
NoResult == Result(None, [original_query |-> None])

FallbackSql == "SELECT customers.* FROM customers LIMIT 10"

\* a handler that returns the query of the normal path
fallback_as_normal(natural_language_query, error) ==
    Result("SELECT customers.* FROM customers LIMIT 100",
           [original_query |-> natural_language_query,
            error |-> error,
            confidence |-> FallbackConfidence])

\* a handler that also reports the table and the type of its statement
fallback_with_table(natural_language_query, error) ==
    Result(FallbackSql,
           [original_query |-> natural_language_query,
            main_table |-> "customers",
            query_type |-> "select",
            error |-> error,
            confidence |-> FallbackConfidence])

\* lines 320-328
fallback(natural_language_query, error) ==
    Result(FallbackSql,
           [original_query |-> natural_language_query,
            error |-> error,
            confidence |-> FallbackConfidence])

\* lines 290-293
extract_entities(self, processed_query) ==
    IF self.use_spacy THEN extract_entities_spacy(self, processed_query)
    ELSE extract_entities_basic(processed_query)

\* a cap copied from the fallback statement
WithLimit10(sql_query, query_type) ==
    IF query_type # "aggregate" /\ ~Contains(Upper(sql_query), "LIMIT")
    THEN sql_query \o " LIMIT 10" ELSE sql_query

\* a cap that is put on every query without one, whatever its type
WithLimitOnAll(sql_query, query_type) ==
    IF ~Contains(Upper(sql_query), "LIMIT") THEN sql_query \o " LIMIT 100" ELSE sql_query

\* lines 305-307
WithLimit(sql_query, query_type) ==
    IF query_type # "aggregate" /\ ~Contains(Upper(sql_query), "LIMIT")
    THEN sql_query \o " LIMIT 100" ELSE sql_query

\* lines 295-318: the result for a text, its normalized form and its entities
Translate(natural_language_query, processed_query, entities) ==
    LET main_table == identify_table(processed_query)
        query_type == identify_query_type(processed_query)
        sql_query ==
            IF query_type = "aggregate"
            THEN build_aggregate_query(processed_query, main_table, entities)
            ELSE build_select_query(processed_query, main_table, entities)
    IN  Result(WithLimit(sql_query, query_type),
               [original_query |-> natural_language_query,
                processed_query |-> processed_query,
                entities |-> entities,
                main_table |-> main_table,
                query_type |-> query_type,
                confidence |-> calculate_confidence(processed_query, entities)])

\* a parser that keeps its entity lists on the object and never empties
\* them: a call also sees what the call before it extracted
parse_query_shared_entities(self, natural_language_query, raises) ==
    IF raises # NoFault THEN fallback(natural_language_query, ErrorText(raises))
    ELSE LET processed_query == preprocess_query(natural_language_query)
             found == extract_entities(self, processed_query)
             kept == IF parse_calls # <<>>
                        /\ "entities" \in DOMAIN parse_calls[Len(parse_calls)].result.metadata
                     THEN parse_calls[Len(parse_calls)].result.metadata.entities
                     ELSE Entities(<<>>, <<>>, <<>>, <<>>)
         IN  Translate(natural_language_query, processed_query,
                       Entities(kept.locations \o found.locations,
                                kept.dates \o found.dates,
                                kept.numbers \o found.numbers,
                                kept.organizations \o found.organizations))

\* lines 278-328
parse_query(self, natural_language_query, raises) ==
    IF raises # NoFault THEN fallback(natural_language_query, ErrorText(raises))
    ELSE LET processed_query == preprocess_query(natural_language_query)
         IN  Translate(natural_language_query, processed_query,
                       extract_entities(self, processed_query))

(***************************************************************************)
(* QueryExecutor: the safety gate.                                         *)
(***************************************************************************)
allowed_operations == <<"SELECT", "select", "Select", "WITH", "with", "With">>

blocked_operations ==
    <<"DROP", "DELETE", "UPDATE", "INSERT", "ALTER", "CREATE",
      "TRUNCATE", "REPLACE", "ATTACH", "DETACH">>

\* re.sub(r'--.*$', '', s, flags=re.MULTILINE), applied to s from position
\* `from` on: the leftmost "--" is removed with what follows it on its line
\* ('.' stops at a newline), and the rest is treated the same way
RECURSIVE StripLineComments(_, _)
StripLineComments(s, from) ==
    LET start == Find(s, "--", from)
        stop == Find(s, "\n", start)
    IN  IF start = 0 THEN Slice(s, from, Len(s))
        ELSE IF stop = 0 THEN Slice(s, from, start - 1)
        ELSE Slice(s, from, start - 1) \o StripLineComments(s, stop)

\* re.sub(r'/\*.*?\*/', '', s, flags=re.DOTALL), applied to s from position
\* `from` on: the leftmost "/*" is removed up to the nearest "*/" behind it;
\* a "/*" that is never closed stays
RECURSIVE StripBlockComments(_, _)
StripBlockComments(s, from) ==
    LET start == Find(s, "/*", from)
        stop == Find(s, "*/", start + 2)
    IN  IF start = 0 \/ stop = 0 THEN Slice(s, from, Len(s))
        ELSE Slice(s, from, start - 1) \o StripBlockComments(s, stop + 2)

\* lines 35-37 of validate_query
CleanQuery(sql) ==
    Join(Split(StripBlockComments(StripLineComments(sql, 1), 1)), " ")

RECURSIVE FirstBlocked(_, _)
FirstBlocked(query_upper, k) ==
    IF k > Len(blocked_operations) THEN None
    ELSE IF Contains(query_upper, blocked_operations[k]) THEN blocked_operations[k]
    ELSE FirstBlocked(query_upper, k + 1)

\* lines 40-43: the first deny-listed keyword found in the upper-cased text
BlockedScan(cleaned_query) == FirstBlocked(Upper(cleaned_query), 1)

\* a first-token test that forgets to fold the case of the token
FirstWordAsWritten(cleaned_query) ==
    LET words == Split(cleaned_query) IN IF words # <<>> THEN words[1] ELSE ""

\* line 46
FirstWord(cleaned_query) ==
    LET words == Split(cleaned_query) IN IF words # <<>> THEN Upper(words[1]) ELSE ""

\* line 47: [op.upper() for op in self.allowed_operations]
AllowedUpper == {Upper(allowed_operations[k]) : k \in 1..Len(allowed_operations)}

MsgEmpty == "Empty query"
MsgBlocked(op) == "Operation '" \o op \o "' is not allowed for safety reasons"
MsgStart == "Query must start with one of: " \o Join(allowed_operations, ", ")
MsgParens == "Mismatched parentheses"
MsgValid == "Valid query"

Verdict(ok, msg) == [is_valid |-> ok, message |-> msg]
NoVerdict == Verdict(FALSE, None)

\* a gate that checks the first token before it scans for the keywords
validate_query_start_first(sql) ==
    IF sql = "" \/ Strip(sql) = "" THEN Verdict(FALSE, MsgEmpty)
    ELSE LET cleaned_query == CleanQuery(sql)
             blocked_op == BlockedScan(cleaned_query)
         IN  IF FirstWord(cleaned_query) \notin AllowedUpper THEN Verdict(FALSE, MsgStart)
             ELSE IF blocked_op # None THEN Verdict(FALSE, MsgBlocked(blocked_op))
             ELSE IF Count(cleaned_query, "(") # Count(cleaned_query, ")")
                  THEN Verdict(FALSE, MsgParens)
             ELSE Verdict(TRUE, MsgValid)

validate_query(sql) ==
    IF sql = "" \/ Strip(sql) = "" THEN Verdict(FALSE, MsgEmpty)
    ELSE LET cleaned_query == CleanQuery(sql)
             blocked_op == BlockedScan(cleaned_query)
         IN  IF blocked_op # None THEN Verdict(FALSE, MsgBlocked(blocked_op))
             ELSE IF FirstWord(cleaned_query) \notin AllowedUpper
                  THEN Verdict(FALSE, MsgStart)
             ELSE IF Count(cleaned_query, "(") # Count(cleaned_query, ")")
                  THEN Verdict(FALSE, MsgParens)
             ELSE Verdict(TRUE, MsgValid)

(***************************************************************************)
(* QueryExecutor.execute_query.  The database is outside the repository:   *)
(* `outcome` is what it does with a query it is handed.                    *)
(***************************************************************************)
DbOutcomes == {"rows", "database_error", "connection_error"}

\* len(df) of the result of a query the database answers
RowsReturned == 3

DataFrame(rows) == [is_none |-> FALSE, rows |-> rows]
NoneDf == [is_none |-> TRUE, rows |-> 0]

ExecMetadata(success, error, row_count, query) ==
    [success |-> success, error |-> error, row_count |-> row_count, query |-> query]
NoExec == ExecMetadata(FALSE, None, 0, None)

\* what one call does: the pair it returns, the verdict it got, whether it
\* called sqlite3.connect, and whether it handed the text to pd.read_sql_query
Executed(data, metadata, checked, connected, handed) ==
    [df |-> data, metadata |-> metadata, verdict |-> checked,
     connected |-> connected, handed |-> handed]

\* lines 78-113: what follows a valid verdict
Connect(sql_query, checked, outcome) ==
    IF outcome = "connection_error"
    THEN Executed(NoneDf,
                  ExecMetadata(FALSE, "Database connection error: unable to open database file",
                               0, sql_query),
                  checked, TRUE, FALSE)
    ELSE IF outcome = "database_error"
    THEN Executed(NoneDf,
                  ExecMetadata(FALSE, "Database error: Execution failed on sql", 0, sql_query),
                  checked, TRUE, TRUE)
    ELSE Executed(DataFrame(RowsReturned),
                  ExecMetadata(TRUE, None, RowsReturned, sql_query),
                  checked, TRUE, TRUE)

\* a call that notes the verdict message and goes on to the database
execute_unchecked(sql_query, checked, outcome) ==
    LET done == Connect(sql_query, checked, outcome)
    IN  IF checked.is_valid THEN done
        ELSE [done EXCEPT !.metadata.error = checked.message]

\* lines 63-113, `checked` being what validate_query returned at line 73
execute_checked(sql_query, checked, outcome) ==
    IF ~checked.is_valid
    THEN Executed(NoneDf, ExecMetadata(FALSE, checked.message, 0, sql_query),
                  checked, FALSE, FALSE)
    ELSE Connect(sql_query, checked, outcome)

\* lines 56-113
execute_query(sql_query, outcome) ==
    execute_checked(sql_query, validate_query(sql_query), outcome)

(***************************************************************************)
(* Inputs of the safety gate: an opening followed by at most MaxPieces     *)
(* pieces, and every deny-listed keyword in upper, lower and mixed case,   *)
(* alone, after SELECT, inside an identifier and inside both comment forms,*)
(* and statements whose string literal holds the opening of a comment.     *)
(***************************************************************************)
SqlHeads == {"", "SELECT ", "with "}

SqlPieces ==
    {"x", " ", "\n", "--", "/*", "*/", "(", ")", "Drop", "DELETE", "update"}

RECURSIVE TextsOf(_, _)
TextsOf(pieces, n) ==
    IF n = 0 THEN {""}
    ELSE LET shorter == TextsOf(pieces, n - 1)
         IN  shorter \cup {t \o p : t \in shorter, p \in pieces}

\* str.capitalize() of an upper-case word
Capitalized(word) == CharAt(word, 1) \o Lower(Slice(word, 2, Len(word)))

KeywordSpellings ==
    UNION {{blocked_operations[k], Lower(blocked_operations[k]),
            Capitalized(blocked_operations[k])} : k \in 1..Len(blocked_operations)}

KeywordTexts ==
    UNION {{w, "SELECT " \o w, "SELECT x" \o w \o "x", "SELECT 1 --" \o w,
            "SELECT /*" \o w \o "*/ 1"} : w \in KeywordSpellings}

LiteralTexts ==
    {"WITH x AS (SELECT ')--' ) DELETE FROM customers",
     "SELECT '/*' FROM customers /* x */"}

\* texts that break several rules at once
ManyFaultTexts ==
    {"DROP TABLE customers", "INSERT INTO t VALUES (1", "-- DROP", "   ",
     "UPDATE t SET a = (SELECT 1; DELETE FROM t", "EXPLAIN SELECT (1"}

SqlTexts ==
    {h \o t : h \in SqlHeads, t \in TextsOf(SqlPieces, MaxPieces)}
        \cup KeywordTexts \cup LiteralTexts \cup ManyFaultTexts

(***************************************************************************)
(* SpecGate: validate_query applied to one text.                           *)
(***************************************************************************)
\* initialize_session_state, and an executor that has not been called
AppInit ==
    /\ query_history = <<>>
    /\ connections = 0
    /\ db_received = <<>>
    /\ df = NoneDf
    /\ exec_metadata = NoExec
    /\ requests = 0

\* no thread besides the one of the session, and no direct call of a builder
NoBuilt == [builder |-> None]
NoThreads == frames = <<>> /\ built = NoBuilt

NoCallYet ==
    /\ NoThreads
    /\ nl_text = None
    /\ raised = NoFault
    /\ parsed = NoResult
    /\ parse_calls = <<>>

InitGate ==
    /\ use_spacy = FALSE
    /\ nlp = None
    /\ sql_text \in SqlTexts
    /\ verdict = NoVerdict
    /\ NoCallYet
    /\ AppInit

ValidateQuery ==
    /\ verdict = NoVerdict
    /\ verdict' = validate_query(sql_text)
    /\ UNCHANGED <<parserVars, sql_text, parseVars, appVars, concVars, buildVars>>

NextGate == ValidateQuery

SpecGate == InitGate /\ [][NextGate]_vars

(***************************************************************************)
(* Inputs of the parser: the sample questions of the source, and every     *)
(* sequence of at most MaxWords words of a vocabulary.                     *)
(***************************************************************************)
get_query_suggestions ==
    {"Show all customers from Bangalore",
     "List orders placed after 2024-01-01",
     "Count total orders",
     "Show total sales by city",
     "Find customers with orders",
     "List products in Electronics category",
     "Show average order amount",
     "Count customers per city",
     "List completed orders",
     "Show products with price greater than 10000",
     "Display recent orders",
     "Show customer details for orders",
     "List top selling products",
     "Show orders by status",
     "Find customers from Mumbai"}

test_queries ==
    {"Find all products in Electronics category",
     "Show average order amount per customer"}

NLWords ==
    {"Show", "showing", "all", "customers", "client", "product",
     "items", "order", "sales", "total", "count",
     "average", "city", "by", "after", "completed", "Bangalore",
     "2024-01-01"}

RECURSIVE SentencesOf(_, _)
SentencesOf(words, n) ==
    IF n = 0 THEN {""}
    ELSE LET shorter == SentencesOf(words, n - 1)
         IN  shorter \cup {IF t = "" THEN w ELSE t \o " " \o w : t \in shorter, w \in words}

\* every aggregate keyword alone and inside a longer word
KeywordQuestions ==
    UNION {{query_patterns[2].names[k], "x" \o query_patterns[2].names[k] \o "x"} :
               k \in 1..Len(query_patterns[2].names)}

\* the keywords that decide the aggregation function, lines 222-236
AggKeywords ==
    <<"total", "sum", "sales", "amount", "quantity", "average", "avg", "count",
      "customer", "order">>

\* every combination of the words of a list from position k on, in list order
RECURSIVE CombosFrom(_, _)
CombosFrom(words, k) ==
    IF k > Len(words) THEN {""}
    ELSE LET rest == CombosFrom(words, k + 1)
         IN  rest \cup {words[k] \o " " \o t : t \in rest}

KeywordCombos == CombosFrom(AggKeywords, 1)

\* an aggregation over a table, grouped or not, with or without a city
GroupQuestions ==
    {agg \o noun \o grouping \o place :
        agg \in {"total sales", "total quantity", "average", "count", "max price"},
        noun \in {"", " customers", " products", " orders", " order items"},
        grouping \in {"", " by city", " per city", " by category", " per category",
                      " by status", " per status", " by customer", " per customer"},
        place \in {"", " in Mumbai"}}

\* the alias phrases of column_aliases, alone, in pairs in both orders, and
\* behind "all" and "everything"
AliasQuestions ==
    LET phrases == {column_aliases[k][1] : k \in 1..Len(column_aliases)}
    IN  phrases
        \cup {a \o " and " \o b : a \in phrases, b \in phrases}
        \cup {w \o " " \o a : w \in {"all", "everything", "Show"}, a \in phrases}

\* questions that name a place that is a known city and one that is not
LocationQuestions ==
    {"Show customers from Paris and Mumbai", "Count customers by city in Delhi"}

\* questions with the synonym phrases of order_items
OrderItemQuestions == {"Show order items", "item details", "List every order item"}

\* questions with a deny-listed keyword, a parenthesis or a comment opening
GateQuestions ==
    {"Orders updated after 2024-01-01", "Drop all customers (", "count orders -- delete"}

NLTexts ==
    get_query_suggestions \cup test_queries \cup SentencesOf(NLWords, MaxWords)
        \cup KeywordQuestions \cup KeywordCombos \cup GroupQuestions \cup AliasQuestions
        \cup LocationQuestions \cup OrderItemQuestions \cup GateQuestions

Call(text, result) == [text |-> text, result |-> result]

\* __init__, lines 11-17: the backend is used when it could be loaded
Parser(flag, backend) == [use_spacy |-> flag, nlp |-> backend]
Parsers == {Parser(FALSE, None)} \cup {Parser(TRUE, backend) : backend \in NerBackends}

ParserInit == \E p \in Parsers : use_spacy = p.use_spacy /\ nlp = p.nlp

\* the parser object of the session
Self == Parser(use_spacy, nlp)

(***************************************************************************)
(* SpecParse: parse_query applied to one text.                             *)
(***************************************************************************)
InitParse ==
    /\ ParserInit
    /\ nl_text \in NLTexts
    /\ raised = NoFault
    /\ parsed = NoResult
    /\ parse_calls = <<>>
    /\ sql_text = None
    /\ verdict = NoVerdict
    /\ NoThreads
    /\ AppInit

ParseQuery ==
    /\ parsed = NoResult
    /\ \E raises \in Steps \cup {NoFault} :
           /\ raised' = raises
           /\ parsed' = parse_query(Self, nl_text, raises)
           /\ parse_calls' = Append(parse_calls, Call(nl_text, parsed'))
    /\ UNCHANGED <<parserVars, nl_text, gateVars, appVars, concVars, buildVars>>

NextParse == ParseQuery

SpecParse == InitParse /\ [][NextParse]_vars

(***************************************************************************)
(* Spec: a session of the dashboard.  A user asks questions in natural     *)
(* language and runs SQL typed by hand, at most MaxRequests times.         *)
(***************************************************************************)
\* a question of more characters than the NER backend accepts (nlp.max_length):
\* the call of line 69 raises for it, whenever it is made
TooLongText == "<1000001 letters>"

AppQuestions ==
    {"", "Show all customers from Bangalore", "Count total orders",
     "Orders updated after 2024-01-01", "customers", TooLongText}

AppSql ==
    {"", "SELECT * FROM customers", "DROP TABLE customers",
     "SELECT * FROM customers WHERE (a = 1",
     "select name from customers -- drop"}

Init ==
    /\ ParserInit
    /\ sql_text = None
    /\ verdict = NoVerdict
    /\ NoCallYet
    /\ AppInit

\* what parse_query returns for the questions of the session, and what
\* validate_query returns for the texts execute_query is called with
\* the step of parse_query that raises for a question of the session
FaultOn(self, query_text) ==
    IF self.use_spacy /\ query_text = TooLongText THEN "extract_entities" ELSE NoFault

Translations ==
    [self \in Parsers |-> [query_text \in AppQuestions |->
        parse_query(self, query_text, FaultOn(self, query_text))]]

AppExecuted ==
    AppSql \cup {Translations[self][query_text].sql_query :
                     self \in Parsers, query_text \in AppQuestions}

Verdicts == [sql_query \in AppExecuted |-> validate_query(sql_query)]

HistoryEntry(natural_query, sql_query, success, row_count, confidence) ==
    [natural_query |-> natural_query, sql_query |-> sql_query, success |-> success,
     row_count |-> row_count, confidence |-> confidence]

\* the effect of one execute_query call
RunQuery(sql_query, done) ==
    /\ sql_text' = sql_query
    /\ verdict' = done.verdict
    /\ df' = done.df
    /\ exec_metadata' = done.metadata
    /\ connections' = connections + (IF done.connected THEN 1 ELSE 0)
    /\ db_received' = IF done.handed THEN Append(db_received, sql_query) ELSE db_received

\* a handler that runs a translation only when its confidence is 0.7 or more
NLRequest_confident_only ==
    /\ requests < MaxRequests
    /\ requests' = requests + 1
    /\ \E query_text \in AppQuestions :
          IF Strip(query_text) = ""
          THEN UNCHANGED <<gateVars, parseVars, query_history, connections,
                           db_received, df, exec_metadata>>
          ELSE \E translated \in {Translations[Self][query_text]} :
               \E outcome \in DbOutcomes :
               \E done \in {execute_checked(translated.sql_query,
                                 Verdicts[translated.sql_query], outcome)} :
                   /\ nl_text' = query_text
                   /\ raised' = FaultOn(Self, query_text)
                   /\ parsed' = translated
                   /\ parse_calls' = Append(parse_calls, Call(query_text, translated))
                   /\ IF translated.metadata.confidence >= 70
                      THEN /\ RunQuery(translated.sql_query, done)
                           /\ query_history' = Append(query_history,
                                  HistoryEntry(query_text, translated.sql_query,
                                               done.metadata.success,
                                               done.metadata.row_count,
                                               translated.metadata.confidence))
                      ELSE UNCHANGED <<gateVars, query_history, connections,
                                       db_received, df, exec_metadata>>
    /\ UNCHANGED <<parserVars, concVars, buildVars>>

\* a handler that keeps only the requests whose query succeeded
NLRequest_successes_only ==
    /\ requests < MaxRequests
    /\ requests' = requests + 1
    /\ \E query_text \in AppQuestions :
          IF Strip(query_text) = ""
          THEN UNCHANGED <<gateVars, parseVars, query_history, connections,
                           db_received, df, exec_metadata>>
          ELSE \E translated \in {Translations[Self][query_text]} :
               \E outcome \in DbOutcomes :
               \E done \in {execute_checked(translated.sql_query,
                                 Verdicts[translated.sql_query], outcome)} :
                   /\ nl_text' = query_text
                   /\ raised' = FaultOn(Self, query_text)
                   /\ parsed' = translated
                   /\ parse_calls' = Append(parse_calls, Call(query_text, translated))
                   /\ RunQuery(translated.sql_query, done)
                   /\ query_history' =
                          IF done.metadata.success
                          THEN Append(query_history,
                                      HistoryEntry(query_text, translated.sql_query,
                                                   done.metadata.success,
                                                   done.metadata.row_count,
                                                   translated.metadata.confidence))
                          ELSE query_history
    /\ UNCHANGED <<parserVars, concVars, buildVars>>

\* process_natural_language_query, lines 146-172
NLRequest ==
    /\ requests < MaxRequests
    /\ requests' = requests + 1
    /\ \E query_text \in AppQuestions :
          IF Strip(query_text) = ""
          THEN UNCHANGED <<gateVars, parseVars, query_history, connections,
                           db_received, df, exec_metadata>>
          ELSE \E translated \in {Translations[Self][query_text]} :
               \E outcome \in DbOutcomes :
               \E done \in {execute_checked(translated.sql_query,
                                 Verdicts[translated.sql_query], outcome)} :
                   /\ nl_text' = query_text
                   /\ raised' = FaultOn(Self, query_text)
                   /\ parsed' = translated
                   /\ parse_calls' = Append(parse_calls, Call(query_text, translated))
                   /\ RunQuery(translated.sql_query, done)
                   /\ query_history' = Append(query_history,
                          HistoryEntry(query_text, translated.sql_query,
                                       done.metadata.success,
                                       done.metadata.row_count,
                                       translated.metadata.confidence))
    /\ UNCHANGED <<parserVars, concVars, buildVars>>

\* main, lines 397-406: the "Execute Manual SQL" button
ManualSQL ==
    /\ requests < MaxRequests
    /\ requests' = requests + 1
    /\ \E manual_sql \in AppSql :
          IF Strip(manual_sql) = ""
          THEN UNCHANGED <<gateVars, connections, db_received, df, exec_metadata>>
          ELSE \E outcome \in DbOutcomes :
                  RunQuery(manual_sql,
                           execute_checked(manual_sql, Verdicts[manual_sql], outcome))
    /\ UNCHANGED <<parserVars, parseVars, query_history, concVars, buildVars>>

Next == NLRequest \/ ManualSQL

Spec == Init /\ [][Next]_vars

(***************************************************************************)
(* SpecConc: threads that call parse_query and validate_query on one       *)
(* parser and one executor.  A frame holds the position of a call and its  *)
(* locals; a step of a thread is the code between two reads of the shared  *)
(* objects.  The attributes a call reads are use_spacy (line 290), nlp     *)
(* (line 69) and the tables __init__ builds (lines 20-56 of nlp_parser.py, *)
(* lines 13-22 of query_executor.py); no statement outside __init__        *)
(* assigns to any of them, so the tables are the definitions above and     *)
(* use_spacy and nlp are the variables every thread reads.                 *)
(***************************************************************************)
Threads == 1..MaxThreads

ConcQuestions ==
    {"Show all customers from Bangalore", "Count customers per city", "total sales"}

ConcSql == {"", "SELECT * FROM customers", "DROP TABLE customers"}

NoEntities == Entities(<<>>, <<>>, <<>>, <<>>)

Frame(op, arg, pc) ==
    [op |-> op, arg |-> arg, pc |-> pc, processed_query |-> None,
     entities |-> NoEntities, main_table |-> None, query_type |-> None,
     sql_query |-> None, cleaned_query |-> None, returned |-> NoResult]

Idle == Frame(None, None, "idle")

InitConc ==
    /\ ParserInit
    /\ frames = [t \in Threads |-> Idle]
    /\ built = NoBuilt
    /\ sql_text = None
    /\ verdict = NoVerdict
    /\ nl_text = None
    /\ raised = NoFault
    /\ parsed = NoResult
    /\ parse_calls = <<>>
    /\ AppInit

\* the thread t moves to the frame f; nothing else changes
Step(t, f) ==
    /\ frames' = [frames EXCEPT ![t] = f]
    /\ UNCHANGED <<parserVars, gateVars, parseVars, appVars, buildVars>>

\* a thread enters parse_query, line 278
CallParseQuery(t) ==
    /\ frames[t].pc = "idle"
    /\ \E natural_language_query \in ConcQuestions :
           Step(t, Frame("parse_query", natural_language_query, "preprocess_query"))

\* line 287
StepPreprocess(t) ==
    /\ frames[t].pc = "preprocess_query"
    /\ Step(t, [frames[t] EXCEPT !.processed_query = preprocess_query(frames[t].arg),
                                 !.pc = "choose_extractor"])

\* line 290: the thread reads self.use_spacy and takes a branch
StepChooseExtractor(t) ==
    /\ frames[t].pc = "choose_extractor"
    /\ Step(t, [frames[t] EXCEPT !.pc = IF use_spacy THEN "extract_entities_spacy"
                                        ELSE "extract_entities_basic"])

\* a spaCy branch that unloads the model once it has its entities
StepExtractSpacy_unloading(t) ==
    /\ frames[t].pc = "extract_entities_spacy"
    /\ frames' = [frames EXCEPT ![t] =
           IF nlp = None
           THEN [frames[t] EXCEPT
                    !.returned = fallback(frames[t].arg, ErrorText("extract_entities")),
                    !.pc = "done"]
           ELSE [frames[t] EXCEPT
                    !.entities = extract_entities_spacy(Self, frames[t].processed_query),
                    !.pc = "identify_table"]]
    /\ use_spacy' = FALSE
    /\ nlp' = None
    /\ UNCHANGED <<gateVars, parseVars, appVars, buildVars>>

\* lines 291 and 67-87: the thread reads self.nlp and calls it; calling None
\* raises, and the handler of lines 320-328 returns the fallback
StepExtractSpacy(t) ==
    /\ frames[t].pc = "extract_entities_spacy"
    /\ Step(t, IF nlp = None
               THEN [frames[t] EXCEPT
                        !.returned = fallback(frames[t].arg, ErrorText("extract_entities")),
                        !.pc = "done"]
               ELSE [frames[t] EXCEPT
                        !.entities = extract_entities_spacy(Self, frames[t].processed_query),
                        !.pc = "identify_table"])

\* lines 293 and 89-118
StepExtractBasic(t) ==
    /\ frames[t].pc = "extract_entities_basic"
    /\ Step(t, [frames[t] EXCEPT
                   !.entities = extract_entities_basic(frames[t].processed_query),
                   !.pc = "identify_table"])

\* lines 296-297
StepIdentify(t) ==
    /\ frames[t].pc = "identify_table"
    /\ Step(t, [frames[t] EXCEPT
                   !.main_table = identify_table(frames[t].processed_query),
                   !.query_type = identify_query_type(frames[t].processed_query),
                   !.pc = "build_query"])

\* lines 300-307
StepBuild(t) ==
    /\ frames[t].pc = "build_query"
    /\ \E f \in {frames[t]} :
           Step(t, [f EXCEPT
               !.sql_query =
                   WithLimit(IF f.query_type = "aggregate"
                             THEN build_aggregate_query(f.processed_query, f.main_table,
                                                        f.entities)
                             ELSE build_select_query(f.processed_query, f.main_table,
                                                     f.entities),
                             f.query_type),
               !.pc = "_calculate_confidence"])

\* lines 309-318
StepScore(t) ==
    /\ frames[t].pc = "_calculate_confidence"
    /\ \E f \in {frames[t]} :
           Step(t, [f EXCEPT
               !.returned =
                   Result(f.sql_query,
                          [original_query |-> f.arg,
                           processed_query |-> f.processed_query,
                           entities |-> f.entities,
                           main_table |-> f.main_table,
                           query_type |-> f.query_type,
                           confidence |-> calculate_confidence(f.processed_query,
                                                               f.entities)]),
               !.pc = "done"])

\* a thread enters validate_query, line 24
CallValidateQuery(t) ==
    /\ frames[t].pc = "idle"
    /\ \E sql_query \in ConcSql :
           Step(t, Frame("validate_query", sql_query, "clean"))

\* lines 31-37
StepClean(t) ==
    /\ frames[t].pc = "clean"
    /\ \E f \in {frames[t]} :
           Step(t, IF f.arg = "" \/ Strip(f.arg) = ""
                   THEN [f EXCEPT !.returned = Verdict(FALSE, MsgEmpty), !.pc = "done"]
                   ELSE [f EXCEPT !.cleaned_query = CleanQuery(f.arg), !.pc = "checks"])

\* lines 40-54: the thread reads blocked_operations and allowed_operations
StepChecks(t) ==
    /\ frames[t].pc = "checks"
    /\ \E f \in {frames[t]} : \E blocked_op \in {BlockedScan(f.cleaned_query)} :
           Step(t, [f EXCEPT
               !.returned =
                   IF blocked_op # None THEN Verdict(FALSE, MsgBlocked(blocked_op))
                   ELSE IF FirstWord(f.cleaned_query) \notin AllowedUpper
                        THEN Verdict(FALSE, MsgStart)
                   ELSE IF Count(f.cleaned_query, "(") # Count(f.cleaned_query, ")")
                        THEN Verdict(FALSE, MsgParens)
                   ELSE Verdict(TRUE, MsgValid),
               !.pc = "done"])

\* the caller takes the result, and the thread is free for its next call
StepReturn(t) ==
    /\ frames[t].pc = "done"
    /\ Step(t, Idle)

NextConc ==
    \E t \in Threads :
        \/ CallParseQuery(t)
        \/ StepPreprocess(t)
        \/ StepChooseExtractor(t)
        \/ StepExtractSpacy(t)
        \/ StepExtractBasic(t)
        \/ StepIdentify(t)
        \/ StepBuild(t)
        \/ StepScore(t)
        \/ CallValidateQuery(t)
        \/ StepClean(t)
        \/ StepChecks(t)
        \/ StepReturn(t)

SpecConc == InitConc /\ [][NextConc]_vars

(***************************************************************************)
(* SpecBuild: one direct call of a query builder.  build_select_query and  *)
(* build_aggregate_query are pure functions of the text, the main table    *)
(* and the entity bundle; here they are applied to texts, tables and       *)
(* bundles that parse_query need not pass them.                            *)
(***************************************************************************)
TableNames == {"customers", "products", "orders", "order_items"}

\* every sequence of at most n elements of S
RECURSIVE SeqsUpTo(_, _)
SeqsUpTo(S, n) ==
    IF n = 0 THEN {<<>>}
    ELSE LET shorter == SeqsUpTo(S, n - 1)
         IN  shorter \cup {Append(q, x) : q \in shorter, x \in S}

BuildLocations == {<<>>, <<"Mumbai">>, <<"paris", "Mumbai">>}
BuildDates == {"2024-01-01", "yesterday"}

BuildEntities ==
    {Entities(locations, dates, <<>>, <<>>) :
        locations \in BuildLocations, dates \in SeqsUpTo(BuildDates, MaxEntities)}

\* the words the join rules, the date operator and the status filter look for
JoinWords == {"", "order", "purchase", "product", "item"}
TimeWords == {"", "after", "before", "before and after"}
StatusWords ==
    {"", "completed", "processing", "shipped", "delivered shipped", "Shipped Completed"}
BuildSelectTexts ==
    {Strip(Join(<<j, t, w>>, " ")) :
        j \in JoinWords, t \in TimeWords, w \in StatusWords}

BuildAggregateTexts ==
    {"count", "total sales by city", "count per category", "sum quantity by category",
     "average by status", "total amount per customer", "max price"}

Built(builder, query, main_table, entities, sql_query) ==
    [builder |-> builder, query |-> query, main_table |-> main_table,
     entities |-> entities, sql_query |-> sql_query]

InitBuild ==
    /\ use_spacy = FALSE
    /\ nlp = None
    /\ sql_text = None
    /\ verdict = NoVerdict
    /\ NoCallYet
    /\ AppInit

\* lines 144-215
BuildSelectQuery ==
    /\ built = NoBuilt
    /\ \E query \in BuildSelectTexts, main_table \in TableNames, entities \in BuildEntities :
           built' = Built("build_select_query", query, main_table, entities,
                          build_select_query(query, main_table, entities))
    /\ UNCHANGED <<parserVars, gateVars, parseVars, appVars, concVars>>

\* lines 217-276
BuildAggregateQuery ==
    /\ built = NoBuilt
    /\ \E query \in BuildAggregateTexts, main_table \in TableNames,
          entities \in BuildEntities :
           built' = Built("build_aggregate_query", query, main_table, entities,
                          build_aggregate_query(query, main_table, entities))
    /\ UNCHANGED <<parserVars, gateVars, parseVars, appVars, concVars>>

NextBuild == BuildSelectQuery \/ BuildAggregateQuery

SpecBuild == InitBuild /\ [][NextBuild]_vars

(***************************************************************************)
(* Claims about the safety gate.                                           *)
(***************************************************************************)
Validated == verdict # NoVerdict

HasBlocked(text) ==
    \E k \in 1..Len(blocked_operations) : Contains(Upper(text), blocked_operations[k])

FirstToken(text) == LET words == Split(text) IN IF words # <<>> THEN words[1] ELSE ""

\* C1 as stated: every text that contains a deny-listed keyword anywhere, in
\* any letter case, also inside a comment, gets an invalid verdict.
C1_AsStated == Validated /\ HasBlocked(sql_text) => ~verdict.is_valid

\* C2 as stated: a text with as many '(' as ')', whose first token is SELECT
\* or WITH in any case and that holds no deny-listed keyword, is valid.
C2_AsStated ==
    /\ Validated
    /\ Count(sql_text, "(") = Count(sql_text, ")")
    /\ Upper(FirstToken(sql_text)) \in {"SELECT", "WITH"}
    /\ ~HasBlocked(sql_text)
    => verdict.is_valid

\* C2: a text is valid when, once its line comments and closed block
\* comments are removed, it has as many '(' as ')', its first token is
\* SELECT or WITH in any case and it holds no deny-listed keyword.
C2_CleanAccepted ==
    /\ Validated
    /\ Count(CleanQuery(sql_text), "(") = Count(CleanQuery(sql_text), ")")
    /\ Upper(FirstToken(CleanQuery(sql_text))) \in {"SELECT", "WITH"}
    /\ ~HasBlocked(CleanQuery(sql_text))
    => verdict.is_valid

\* a lower-case WITH query with a parenthesis pair and a comment is accepted
C2_Witness ==
    /\ Validated
    /\ sql_text = "with ()--"
    /\ verdict = Verdict(TRUE, MsgValid)

(***************************************************************************)
(* Claims about parse_query.                                               *)
(***************************************************************************)
Parsed == parsed # NoResult
OnFallbackPath == Parsed /\ "error" \in DOMAIN parsed.metadata
OnNormalPath == Parsed /\ "error" \notin DOMAIN parsed.metadata

EndsWith(s, suffix) ==
    Len(s) >= Len(suffix) /\ SubSeq(s, Len(s) - Len(suffix) + 1, Len(s)) = suffix

StartsWith(s, prefix) == Len(s) >= Len(prefix) /\ SubSeq(s, 1, Len(prefix)) = prefix

\* the text behind the first " WHERE " of a query, "" when it has none
WherePart(sql) ==
    IF Find(sql, " WHERE ", 1) = 0 THEN ""
    ELSE Slice(sql, Find(sql, " WHERE ", 1) + 7, Len(sql))

\* C4: the confidence parse_query returns lies in [0,1] (0..100 hundredths),
\* on the normal path and on the fallback path.
C4_ConfidenceInRange ==
    Parsed => parsed.metadata.confidence >= 0 /\ parsed.metadata.confidence <= FullConfidence

\* a question whose bonuses add up to more than 1.0 is scored 1.0
C4_Witness ==
    /\ OnNormalPath
    /\ nl_text = "List orders placed after 2024-01-01"
    /\ SummedConfidence(parsed.metadata.processed_query, parsed.metadata.entities)
           > FullConfidence
    /\ parsed.metadata.confidence = FullConfidence

\* C5: when a step of parse_query raises, parse_query returns exactly the
\* fallback statement, with metadata holding the original text, the error
\* text and confidence 0.3, and nothing of a partly built query.
C5_FallbackOnFault ==
    Parsed /\ raised # NoFault =>
        /\ parsed.sql_query = "SELECT customers.* FROM customers LIMIT 10"
        /\ parsed.metadata = [original_query |-> nl_text,
                              error |-> ErrorText(raised),
                              confidence |-> 30]

\* query construction raises for a question that has a normal translation
C5_Witness ==
    /\ Parsed
    /\ raised = "build_query"
    /\ nl_text = "Show total sales by city"
    /\ parsed.sql_query = FallbackSql
    /\ parsed.metadata.error = ErrorText("build_query")

\* C6 as stated: parse_query on the empty string returns the fallback query
\* with the fallback confidence.
C6_AsStated ==
    Parsed /\ nl_text = "" =>
        /\ parsed.sql_query = "SELECT customers.* FROM customers LIMIT 10"
        /\ parsed.metadata.confidence = FallbackConfidence

\* C6: parse_query on the empty string raises in no step of its own; it
\* returns the query of the normal path, SELECT customers.* FROM customers
\* LIMIT 100, with confidence 0.5 and no error text.
C6_EmptyIsNormal ==
    Parsed /\ nl_text = "" /\ raised = NoFault =>
        /\ parsed.sql_query = "SELECT customers.* FROM customers LIMIT 100"
        /\ parsed.metadata.confidence = 50
        /\ OnNormalPath
        /\ parsed.metadata.processed_query = ""

C6_Witness ==
    /\ nl_text = ""
    /\ raised = NoFault
    /\ OnNormalPath
    /\ parsed.metadata.main_table = "customers"
    /\ parsed.metadata.query_type = "select"

\* C8: "Show all customers from Bangalore" gives table customers, type
\* select, and a query that selects customers.*, has the predicate
\* customers.city = 'bangalore' in its WHERE clause and ends with LIMIT 100.
C8_Scenario1 ==
    OnNormalPath /\ nl_text = "Show all customers from Bangalore" =>
        /\ parsed.metadata.main_table = "customers"
        /\ parsed.metadata.query_type = "select"
        /\ StartsWith(parsed.sql_query, "SELECT customers.* FROM ")
        /\ Contains(WherePart(parsed.sql_query), "customers.city = 'bangalore'")
        /\ EndsWith(parsed.sql_query, " LIMIT 100")

\* C9: "Count total orders" gives type aggregate and the row count over
\* orders, with no GROUP BY and no WHERE clause.
C9_Scenario2 ==
    OnNormalPath /\ nl_text = "Count total orders" =>
        /\ parsed.metadata.query_type = "aggregate"
        /\ parsed.metadata.main_table = "orders"
        /\ parsed.sql_query = "SELECT COUNT(*) as result FROM orders"
        /\ ~Contains(parsed.sql_query, "GROUP BY")
        /\ ~Contains(parsed.sql_query, "WHERE")

C9_Witness ==
    /\ OnNormalPath
    /\ nl_text = "Count total orders"
    /\ Contains(parsed.metadata.processed_query, "count")
    /\ Contains(parsed.metadata.processed_query, "order")
    /\ Contains(parsed.sql_query, "COUNT(*)")

SynonymsOf(table) ==
    LET row == CHOOSE r \in {entity_mappings[t] : t \in 1..Len(entity_mappings)} :
                   r.table = table
    IN  {row.names[k] : k \in 1..Len(row.names)}

HasSynonym(table, text) == \E phrase \in SynonymsOf(table) : Contains(text, phrase)

\* C10: the table identify_table returns is the first of customers,
\* products, orders, order_items with a synonym phrase in the text, and
\* customers when no table has one.
C10_FirstTableWins ==
    OnNormalPath =>
        LET text == parsed.metadata.processed_query
        IN  parsed.metadata.main_table =
                IF HasSynonym("customers", text) THEN "customers"
                ELSE IF HasSynonym("products", text) THEN "products"
                ELSE IF HasSynonym("orders", text) THEN "orders"
                ELSE IF HasSynonym("order_items", text) THEN "order_items"
                ELSE "customers"

\* a text with synonyms of products, orders and order_items goes to products
C10_Witness ==
    /\ OnNormalPath
    /\ nl_text = "order items"
    /\ HasSynonym("orders", parsed.metadata.processed_query)
    /\ HasSynonym("order_items", parsed.metadata.processed_query)
    /\ parsed.metadata.main_table = "products"

(***************************************************************************)
(* Claims about a session.                                                 *)
(***************************************************************************)
\* C3: a text reaches the database only in a call in which validate_query
\* found that text valid; a call whose verdict is invalid opens no
\* connection, hands nothing to the database and returns no data, with
\* success = false, row_count = 0 and the verdict message as error.
C3_GateBeforeDatabase ==
    [][/\ (connections' # connections \/ db_received' # db_received) =>
              /\ verdict' = Verdicts[sql_text']
              /\ verdict'.is_valid
              /\ connections' = connections + 1
              /\ db_received' \in {db_received, Append(db_received, sql_text')}
       /\ (exec_metadata' # NoExec /\ ~Verdicts[exec_metadata'.query].is_valid) =>
              /\ df' = NoneDf
              /\ exec_metadata'.success = FALSE
              /\ exec_metadata'.row_count = 0
              /\ exec_metadata'.error = Verdicts[exec_metadata'.query].message]_vars

\* after a query that reached the database, the translation of a question
\* is rejected by the gate and the database sees nothing of it
C3_Witness ==
    /\ connections = 1
    /\ db_received = <<"SELECT * FROM customers">>
    /\ nl_text = "Orders updated after 2024-01-01"
    /\ sql_text = parsed.sql_query
    /\ verdict = Verdict(FALSE, MsgBlocked("UPDATE"))
    /\ exec_metadata = ExecMetadata(FALSE, verdict.message, 0, sql_text)
    /\ df = NoneDf

AggregateWords == {"total", "sum", "count", "average", "avg", "max", "min"}

\* C11: the query type is aggregate exactly when one of total, sum, count,
\* average, avg, max, min is a substring of the text, whichever of them it
\* is, and select otherwise.
C11_AggregateIffKeyword ==
    OnNormalPath =>
        parsed.metadata.query_type =
            IF \E word \in AggregateWords : Contains(parsed.metadata.processed_query, word)
            THEN "aggregate" ELSE "select"

\* the last keyword of the list, inside a longer word
C11_Witness ==
    /\ OnNormalPath
    /\ nl_text = "xminx"
    /\ parsed.metadata.query_type = "aggregate"
    /\ parsed.sql_query = "SELECT COUNT(*) as result FROM customers"

OnAggregatePath == OnNormalPath /\ parsed.metadata.query_type = "aggregate"
OnSelectPath == OnNormalPath /\ parsed.metadata.query_type = "select"

\* the aggregation function of an aggregate query: what stands between
\* "SELECT [<group_col>, ]" and " as result"
AggOf(sql) ==
    LET stop == Find(sql, " as result", 1)
        comma == Find(sql, ", ", 1)
    IN  Slice(sql, IF comma # 0 /\ comma < stop THEN comma + 2 ELSE 8, stop - 1)

\* the six rules of the claim, each tried with both of its keywords
FirstMatchingRule(text) ==
    LET Has(word) == Contains(text, word)
    IN  IF (Has("total") \/ Has("sum")) /\ (Has("sales") \/ Has("amount"))
        THEN "SUM(orders.total_amount)"
        ELSE IF (Has("total") \/ Has("sum")) /\ Has("quantity")
        THEN "SUM(order_items.quantity)"
        ELSE IF Has("average") \/ Has("avg") THEN "AVG(orders.total_amount)"
        ELSE IF Has("count") /\ Has("customer") THEN "COUNT(DISTINCT customers.customer_id)"
        ELSE IF Has("count") /\ Has("order") THEN "COUNT(DISTINCT orders.order_id)"
        ELSE "COUNT(*)"

\* C12 as stated: the aggregation function of an aggregate query is the one
\* of the first of the six rules that matches the text.
C12_AsStated ==
    OnAggregatePath =>
        AggOf(parsed.sql_query) = FirstMatchingRule(parsed.metadata.processed_query)

\* C12: a text with total or sum gets SUM(orders.total_amount) with sales or
\* amount, else SUM(order_items.quantity) with quantity, else COUNT(*), and
\* no later rule is tried for it; a text without total and sum gets
\* AVG(orders.total_amount) with average or avg; else, with count,
\* COUNT(DISTINCT customers.customer_id) with customer, else
\* COUNT(DISTINCT orders.order_id) with order; COUNT(*) in every other case.
C12_NestedRules ==
    OnAggregatePath =>
        LET Has(word) == Contains(parsed.metadata.processed_query, word)
            sums == Has("total") \/ Has("sum")
            money == Has("sales") \/ Has("amount")
            mean == Has("average") \/ Has("avg")
            agg == AggOf(parsed.sql_query)
        IN  /\ agg = "SUM(orders.total_amount)" <=> sums /\ money
            /\ agg = "SUM(order_items.quantity)" <=> sums /\ ~money /\ Has("quantity")
            /\ agg = "AVG(orders.total_amount)" <=> ~sums /\ mean
            /\ agg = "COUNT(DISTINCT customers.customer_id)" <=>
                   ~sums /\ ~mean /\ Has("count") /\ Has("customer")
            /\ agg = "COUNT(DISTINCT orders.order_id)" <=>
                   ~sums /\ ~mean /\ Has("count") /\ ~Has("customer") /\ Has("order")
            /\ agg \in {"SUM(orders.total_amount)", "SUM(order_items.quantity)",
                        "AVG(orders.total_amount)", "COUNT(DISTINCT customers.customer_id)",
                        "COUNT(DISTINCT orders.order_id)", "COUNT(*)"}

\* total without sales, amount or quantity ends the choice: the average
\* rule and the count rules behind it are not tried
C12_Witness ==
    /\ OnAggregatePath
    /\ nl_text = "total average count customer order "
    /\ AggOf(parsed.sql_query) = "COUNT(*)"

\* the position of the first of two clause keywords in a query, 0 when the
\* query has neither
FirstOf(sql, a, b) ==
    LET i == Find(sql, a, 1)
        j == Find(sql, b, 1)
    IN  IF i = 0 THEN j ELSE IF j = 0 THEN i ELSE IF i < j THEN i ELSE j

\* the FROM clause of a query
FromOf(sql) ==
    LET start == Find(sql, " FROM ", 1) + 6
        stop == FirstOf(sql, " GROUP BY ", " WHERE ")
    IN  Slice(sql, start, IF stop = 0 THEN Len(sql) ELSE stop - 1)

\* the group-by column of a query, None when it has no GROUP BY clause
GroupOf(sql) ==
    LET at == Find(sql, " GROUP BY ", 1)
        stop == Find(sql, " WHERE ", at + 1)
    IN  IF at = 0 THEN None
        ELSE Slice(sql, at + 10, IF stop = 0 THEN Len(sql) ELSE stop - 1)

\* C13: in an aggregate query, grouping by customers.city or customers.name
\* with a main table other than customers gives orders LEFT JOIN customers;
\* grouping by products.category gives order_items LEFT JOIN products, with
\* LEFT JOIN orders behind it exactly when the aggregation function refers
\* to orders; in every other case the FROM clause is the main table.  "Show
\* total sales by city" gives SUM(orders.total_amount) by customers.city
\* over orders LEFT JOIN customers.
C13_FromFollowsGroupBy ==
    OnAggregatePath =>
        LET sql == parsed.sql_query
            group_col == GroupOf(sql)
            from_clause == FromOf(sql)
        IN  /\ IF group_col \in {"customers.city", "customers.name"}
                  /\ parsed.metadata.main_table # "customers"
               THEN from_clause =
                        "orders LEFT JOIN customers ON orders.customer_id = customers.customer_id"
               ELSE IF group_col = "products.category"
               THEN /\ StartsWith(from_clause, "order_items LEFT JOIN products ON "
                                       \o "order_items.product_id = products.product_id")
                    /\ Contains(AggOf(sql), "orders.") =>
                           EndsWith(from_clause,
                               " LEFT JOIN orders ON order_items.order_id = orders.order_id")
                    /\ ~Contains(AggOf(sql), "orders.") =>
                           ~Contains(from_clause, "LEFT JOIN orders")
               ELSE from_clause = parsed.metadata.main_table
            /\ nl_text = "Show total sales by city" =>
                   /\ AggOf(sql) = "SUM(orders.total_amount)"
                   /\ group_col = "customers.city"
                   /\ StartsWith(from_clause, "orders LEFT JOIN customers ")

\* a sum of order totals by product category joins all three tables
C13_Witness ==
    /\ OnAggregatePath
    /\ nl_text = "total sales products by category"
    /\ parsed.metadata.main_table = "products"
    /\ FromOf(parsed.sql_query) =
           "order_items LEFT JOIN products ON order_items.product_id = products.product_id"
           \o " LEFT JOIN orders ON order_items.order_id = orders.order_id"

\* C14: an aggregate query has its clauses in the order SELECT, FROM, WHERE,
\* GROUP BY: with a city predicate and a group-by column, WHERE stands in
\* front of GROUP BY.
C14_WhereBeforeGroupBy ==
    OnAggregatePath =>
        LET sql == parsed.sql_query
            from_at == Find(sql, " FROM ", 1)
            where_at == Find(sql, " WHERE ", 1)
            group_at == Find(sql, " GROUP BY ", 1)
        IN  /\ StartsWith(sql, "SELECT ")
            /\ from_at > 0
            /\ where_at # 0 => from_at < where_at
            /\ group_at # 0 => from_at < group_at
            /\ where_at # 0 /\ group_at # 0 => where_at < group_at

\* C15: a query of type select that parse_query returns on the normal path
\* ends with LIMIT 100, and a query of type aggregate has no LIMIT clause.
C15_RowCap ==
    /\ OnSelectPath => /\ EndsWith(parsed.sql_query, " LIMIT 100")
                       /\ ~Contains(Upper(Slice(parsed.sql_query, 1,
                                              Len(parsed.sql_query) - 10)), "LIMIT")
    /\ OnAggregatePath => ~Contains(Upper(parsed.sql_query), "LIMIT")

\* the cap stands behind the WHERE clause of a select query
C15_Witness ==
    /\ OnSelectPath
    /\ nl_text = "List completed orders"
    /\ EndsWith(parsed.sql_query, " WHERE orders.status = 'Completed' LIMIT 100")

(***************************************************************************)
(* Claims about the confidence score.                                      *)
(***************************************************************************)
\* the keyword categories with a member in a text
CategoriesIn(text) ==
    {c \in 1..Len(query_patterns) :
        \E k \in 1..Len(query_patterns[c].names) : Contains(text, query_patterns[c].names[k])}

\* the tables with a synonym in a text
TablesIn(text) ==
    {table \in {"customers", "products", "orders", "order_items"} : HasSynonym(table, text)}

\* 1 when an entity bucket is filled, 0 when all are empty
Filled(entities) ==
    IF \E bucket \in DOMAIN entities : entities[bucket] # <<>> THEN 1 ELSE 0

\* C16 as stated: the confidence is min(1.0, 0.5 + 0.2 e + 0.1 k + 0.15 t)
\* with t = 1 when a synonym of at least one table occurs in the text.
C16_AsStated ==
    OnNormalPath =>
        LET text == parsed.metadata.processed_query
            e == Filled(parsed.metadata.entities)
            k == Cardinality(CategoriesIn(text))
            t == IF TablesIn(text) # {} THEN 1 ELSE 0
        IN  parsed.metadata.confidence = Clamp(50 + 20 * e + 10 * k + 15 * t)

\* C16: the confidence is min(1.0, 0.5 + 0.2 e + 0.1 k + 0.15 t) with t the
\* number of tables that have a synonym in the text.
C16_BonusPerTable ==
    OnNormalPath =>
        LET text == parsed.metadata.processed_query
            e == Filled(parsed.metadata.entities)
            k == Cardinality(CategoriesIn(text))
            t == Cardinality(TablesIn(text))
        IN  parsed.metadata.confidence = Clamp(50 + 20 * e + 10 * k + 15 * t)

\* a text that names two tables and stays under 1.0
C16_Witness ==
    /\ OnNormalPath
    /\ nl_text = "product sales"
    /\ ~use_spacy
    /\ TablesIn(parsed.metadata.processed_query) = {"products", "orders"}
    /\ parsed.metadata.confidence = 80

\* C17: the confidence never decides whether a query is run.  Every
\* translation of a request is handed to execute_query, and what
\* execute_query does with it is what it does with that SQL text for one of
\* the outcomes of the database, whatever the confidence of the translation.
C17_ConfidenceNeverGates ==
    [][parse_calls' # parse_calls =>
          /\ sql_text' = parsed'.sql_query
          /\ Len(query_history') = Len(query_history) + 1
          /\ query_history'[Len(query_history')].sql_query = parsed'.sql_query
          /\ query_history'[Len(query_history')].confidence = parsed'.metadata.confidence
          /\ \E outcome \in DbOutcomes :
                \E done \in {execute_checked(parsed'.sql_query,
                                  Verdicts[parsed'.sql_query], outcome)} :
                    /\ verdict' = done.verdict
                    /\ df' = done.df
                    /\ exec_metadata' = done.metadata
                    /\ connections' = connections + (IF done.connected THEN 1 ELSE 0)
                    /\ db_received' = IF done.handed
                                      THEN Append(db_received, parsed'.sql_query)
                                      ELSE db_received]_vars

\* two questions with the same translation and different confidence values
\* were both run, with the same result
C17_Witness ==
    /\ Len(query_history) = 2
    /\ query_history[1].natural_query = "customers"
    /\ query_history[2].natural_query = "Show all customers from Bangalore"
    /\ query_history[1].sql_query = query_history[2].sql_query
    /\ query_history[1].confidence < query_history[2].confidence
    /\ query_history[1].success /\ query_history[2].success
    /\ db_received = <<query_history[1].sql_query, query_history[2].sql_query>>

(***************************************************************************)
(* Claims about the metadata.                                              *)
(***************************************************************************)
TranslationKeys ==
    {"original_query", "processed_query", "entities", "main_table", "query_type",
     "confidence"}

\* C18 as stated: on the normal path and on the fallback path the metadata
\* holds the original text, the normalized text, the entities, the table,
\* the query type and the confidence, and an error only on the fallback path.
C18_AsStated ==
    Parsed =>
        /\ TranslationKeys \subseteq DOMAIN parsed.metadata
        /\ "error" \in DOMAIN parsed.metadata => raised # NoFault

\* C18: on the normal path the metadata holds exactly the original text, the
\* normalized text, the entities, the table, the query type and the
\* confidence; on the fallback path it holds exactly the original text, the
\* error string and the confidence.
C18_KeysByPath ==
    Parsed =>
        /\ raised = NoFault => DOMAIN parsed.metadata = TranslationKeys
        /\ raised # NoFault =>
               DOMAIN parsed.metadata = {"original_query", "error", "confidence"}

\* entity extraction raises: the metadata has no normalized text, no
\* entities, no table and no query type
C18_Witness ==
    /\ Parsed
    /\ raised = "extract_entities"
    /\ nl_text = "Count customers per city"
    /\ DOMAIN parsed.metadata \cap TranslationKeys = {"original_query", "confidence"}
    /\ parsed.metadata.error = ErrorText("extract_entities")

(***************************************************************************)
(* Claims about concurrent calls.                                          *)
(***************************************************************************)
\* what each call returns when no other call runs, on each parser
AloneParse ==
    [self \in Parsers |-> [text \in ConcQuestions |-> parse_query(self, text, NoFault)]]

AloneValidate == [sql \in ConcSql |-> validate_query(sql)]

ReturnedAsAlone ==
    \A t \in Threads :
        frames[t].pc = "done" =>
            frames[t].returned = IF frames[t].op = "parse_query"
                                 THEN AloneParse[Self][frames[t].arg]
                                 ELSE AloneValidate[frames[t].arg]

\* C19: under every interleaving of the steps of concurrent parse_query and
\* validate_query calls, a call returns what it returns when run alone, and
\* no step changes the extraction strategy chosen at construction (the
\* tables of the parser and of the executor are assigned by no step).
C19_Reentrant ==
    /\ []ReturnedAsAlone
    /\ [][use_spacy' = use_spacy /\ nlp' = nlp]_vars

\* two calls with different inputs are both past entity extraction, on a
\* parser that uses the NER backend, and one of them has returned
C19_Witness ==
    /\ use_spacy
    /\ frames[1].op = "parse_query" /\ frames[2].op = "parse_query"
    /\ frames[1].arg # frames[2].arg
    /\ frames[1].pc = "done"
    /\ frames[1].returned.metadata.entities.locations # <<>>
    /\ frames[2].pc = "build_query"

(***************************************************************************)
(* Claims about the select list.                                           *)
(***************************************************************************)
\* what stands between SELECT and FROM
SelectListOf(sql) == Slice(sql, 8, Find(sql, " FROM ", 1) - 1)

\* the positions in the alias map of the alias phrases that occur in text
AliasesIn(text) ==
    {k \in 1..Len(column_aliases) : Contains(text, column_aliases[k][1])}

\* the columns of the aliases in M, one per alias, in alias-map order
ColumnsOf(M) ==
    [i \in 1..Cardinality(M) |->
        column_aliases[CHOOSE k \in M : Cardinality({j \in M : j <= k}) = i][2]]

\* C20: build_select_query selects main_table.* when the text contains
\* "all" or "everything"; otherwise the select list is the qualified columns
\* of the alias phrases that occur in the text, one per matching alias and
\* in alias-map order, and main_table.* when no alias phrase occurs.
C20_SelectList ==
    OnSelectPath =>
        LET text == parsed.metadata.processed_query
            star == parsed.metadata.main_table \o ".*"
            M == AliasesIn(text)
        IN  SelectListOf(parsed.sql_query) =
                IF Contains(text, "all") \/ Contains(text, "everything") THEN star
                ELSE IF M = {} THEN star
                ELSE Join(ColumnsOf(M), ", ")

\* two alias phrases in the order opposite to the one of the alias map
C20_Witness ==
    /\ OnSelectPath
    /\ nl_text = "category and price"
    /\ SelectListOf(parsed.sql_query) = "products.price, products.category"

(***************************************************************************)
(* Claims about the joins and the predicates of build_select_query.        *)
(***************************************************************************)
SelectBuilt == built.builder = "build_select_query"

\* C21: build_select_query joins by this rule table only: customers with
\* "order" or "purchase" in the text gets LEFT JOIN orders; orders always
\* gets LEFT JOIN customers, followed by LEFT JOIN order_items and LEFT JOIN
\* products exactly when the text contains "product" or "item"; every other
\* case has no join.
C21_JoinRules ==
    SelectBuilt =>
        LET text == Lower(built.query)
            Has(w) == Contains(text, w)
        IN  FromOf(built.sql_query) =
                IF built.main_table = "customers" /\ (Has("order") \/ Has("purchase"))
                THEN "customers LEFT JOIN orders ON customers.customer_id = orders.customer_id"
                ELSE IF built.main_table = "orders" /\ (Has("product") \/ Has("item"))
                THEN "orders LEFT JOIN customers ON orders.customer_id = customers.customer_id"
                     \o " LEFT JOIN order_items ON orders.order_id = order_items.order_id"
                     \o " LEFT JOIN products ON order_items.product_id = products.product_id"
                ELSE IF built.main_table = "orders"
                THEN "orders LEFT JOIN customers ON orders.customer_id = customers.customer_id"
                ELSE built.main_table

\* the main table is orders and the text mentions an item: three joins
C21_Witness ==
    /\ SelectBuilt
    /\ built.main_table = "orders"
    /\ built.query = "item"
    /\ Contains(built.sql_query, "LEFT JOIN products ON order_items.product_id")

\* the pieces of s between the occurrences of sep
RECURSIVE SplitBy(_, _, _)
SplitBy(s, sep, from) ==
    LET at == Find(s, sep, from)
    IN  IF at = 0 THEN <<Slice(s, from, Len(s))>>
        ELSE <<Slice(s, from, at - 1)>> \o SplitBy(s, sep, at + Len(sep))

\* the predicates of the WHERE clause of a query, in their order
PredicatesOf(sql) ==
    IF WherePart(sql) = "" THEN <<>> ELSE SplitBy(WherePart(sql), " AND ", 1)

IsDatePredicate(p) == StartsWith(p, "orders.order_date ")
IsStatusPredicate(p) == StartsWith(p, "orders.status = ")
IsCityPredicate(p) == StartsWith(p, "customers.city = ")

\* C22: build_select_query emits one orders.order_date predicate per
\* extracted date, all with one operator: '>' when the text contains "after",
\* '<' when it contains "before" and not "after", '=' otherwise; the
\* predicates of the WHERE clause are joined with AND and nothing else.
C22_DatePredicates ==
    SelectBuilt =>
        LET text == Lower(built.query)
            dates == built.entities.dates
            preds == PredicatesOf(built.sql_query)
            op == IF Contains(text, "after") THEN ">"
                  ELSE IF Contains(text, "before") THEN "<" ELSE "="
        IN  /\ SelectSeq(preds, IsDatePredicate) =
                   [i \in 1..Len(dates) |->
                       "orders.order_date " \o op \o " '" \o dates[i] \o "'"]
            /\ \A i \in 1..Len(preds) :
                   IsDatePredicate(preds[i]) \/ IsStatusPredicate(preds[i])
                       \/ IsCityPredicate(preds[i])
            /\ ~Contains(built.sql_query, " OR ") /\ ~Contains(built.sql_query, "NOT ")
            /\ (preds = <<>>) = ~Contains(built.sql_query, "WHERE")

\* two dates and a text with "before" and "after": both predicates use '>'
C22_Witness ==
    /\ SelectBuilt
    /\ built.query = "before and after"
    /\ built.entities.dates = <<"2024-01-01", "yesterday">>
    /\ built.entities.locations = <<"Mumbai">>
    /\ WherePart(built.sql_query) =
           "customers.city = 'Mumbai' AND orders.order_date > '2024-01-01'"
               \o " AND orders.order_date > 'yesterday'"

\* the status keywords in the order the claim gives, and their values
StatusKeywords == <<"completed", "processing", "shipped", "delivered">>
StatusValues == <<"Completed", "Processing", "Shipped", "Delivered">>

\* C23: build_select_query emits at most one orders.status predicate: the
\* one of the first of completed, processing, shipped, delivered that occurs
\* in the text, and none when none occurs.
C23_FirstStatusOnly ==
    SelectBuilt =>
        LET text == Lower(built.query)
            found == {k \in 1..Len(StatusKeywords) : Contains(text, StatusKeywords[k])}
            emitted == SelectSeq(PredicatesOf(built.sql_query), IsStatusPredicate)
        IN  IF found = {} THEN emitted = <<>>
            ELSE emitted = <<"orders.status = '"
                               \o StatusValues[CHOOSE k \in found : \A j \in found : k <= j]
                               \o "'">>

\* "delivered" stands before "shipped" in the text; shipped is tried first
C23_Witness ==
    /\ SelectBuilt
    /\ built.query = "delivered shipped"
    /\ built.entities.dates = <<>>
    /\ built.entities.locations = <<>>
    /\ WherePart(built.sql_query) = "orders.status = 'Shipped'"

(***************************************************************************)
(* Claims about locations.                                                 *)
(***************************************************************************)
IsPlaceToken(token) == NerLabel(nlp, token) \in {"GPE", "LOC"}
IsKnownCity(location) == Lower(location) \in known_cities

\* a query without the row cap parse_query puts behind it
WithoutCap(sql) ==
    IF EndsWith(sql, " LIMIT 100") THEN Slice(sql, 1, Len(sql) - 10) ELSE sql

CityPredicatesOf(sql) == SelectSeq(PredicatesOf(WithoutCap(sql)), IsCityPredicate)

\* C24: the locations in the metadata are what the extractor found, known
\* city or not; the query of either builder has a customers.city predicate
\* for a location exactly when the location is, whatever its case, one of
\* the eight known cities.
C24_TwoStageLocations ==
    OnNormalPath =>
        LET text == parsed.metadata.processed_query
            locations == parsed.metadata.entities.locations
            known == SelectSeq(locations, IsKnownCity)
        IN  /\ locations = IF use_spacy THEN SelectSeq(Split(text), IsPlaceToken)
                           ELSE FindAll("city", text, 1)
            /\ CityPredicatesOf(parsed.sql_query) =
                   [i \in 1..Len(known) |-> "customers.city = '" \o known[i] \o "'"]

\* Paris is in the metadata and in no predicate, Mumbai is in both
C24_Witness ==
    /\ OnSelectPath
    /\ nl_text = "Show customers from Paris and Mumbai"
    /\ parsed.metadata.entities.locations = <<"paris", "mumbai">>
    /\ CityPredicatesOf(parsed.sql_query) = <<"customers.city = 'mumbai'">>

(***************************************************************************)
(* Claims about the order of the rules of the gate.                        *)
(***************************************************************************)
\* the deny-listed keywords that occur in a text, whatever their case
BlockedIn(text) ==
    LET upper == Upper(text)
    IN  {blocked_operations[k] : k \in {j \in 1..Len(blocked_operations) :
                                            Contains(upper, blocked_operations[j])}}

\* the rules a text breaks: 1 empty, 3 deny-list, 4 first token, 5 parentheses
\* (rule 2, comment stripping, rejects nothing); the rules behind the empty
\* check see the text without its comments
RulesBroken(text) ==
    LET cleaned == CleanQuery(text)
    IN  (IF text = "" \/ Strip(text) = "" THEN {1} ELSE {})
        \cup (IF BlockedIn(cleaned) # {} THEN {3} ELSE {})
        \cup (IF Upper(FirstToken(cleaned)) \notin {"SELECT", "WITH"} THEN {4} ELSE {})
        \cup (IF Count(cleaned, "(") # Count(cleaned, ")") THEN {5} ELSE {})

\* C25: the verdict message is the one of the earliest rule the text breaks
\* in the order empty check, deny-list scan, first-token check, parenthesis
\* balance, and a deny-list message names a keyword that occurs in the text.
C25_EarliestRuleReported ==
    Validated =>
        LET broken == RulesBroken(sql_text)
            first == CHOOSE r \in broken : \A q \in broken : r <= q
        IN  IF broken = {} THEN verdict = Verdict(TRUE, MsgValid)
            ELSE /\ ~verdict.is_valid
                 /\ first = 1 => verdict.message = MsgEmpty
                 /\ first = 3 => \E op \in BlockedIn(sql_text) :
                                     verdict.message = MsgBlocked(op)
                 /\ first = 4 => verdict.message = MsgStart
                 /\ first = 5 => verdict.message = MsgParens

\* "DROP TABLE customers" breaks the deny-list rule and the first-token
\* rule, and is reported as a DROP violation
C25_Witness ==
    /\ Validated
    /\ sql_text = "DROP TABLE customers"
    /\ RulesBroken(sql_text) = {3, 4}
    /\ verdict = Verdict(FALSE, MsgBlocked("DROP"))

(***************************************************************************)
(* Claims about the query history.                                         *)
(***************************************************************************)
\* C26: every request that is translated and executed appends one entry of
\* the natural text, the SQL, the success flag, the row count and the
\* confidence to the history, also when the gate rejects the SQL or the
\* translation fell back; an empty request and a manual-SQL request append
\* nothing; no entry is ever changed or removed.
C26_HistoryAppendOnly ==
    [][/\ IF parse_calls' # parse_calls
          THEN query_history' =
                   Append(query_history,
                          [natural_query |-> nl_text',
                           sql_query |-> parsed'.sql_query,
                           success |-> exec_metadata'.success,
                           row_count |-> exec_metadata'.row_count,
                           confidence |-> parsed'.metadata.confidence])
          ELSE query_history' = query_history
       /\ exec_metadata' # exec_metadata /\ parse_calls' = parse_calls
              => query_history' = query_history]_vars

\* a translation that fell back and one the gate rejected are both in the
\* history, and the manual query that followed them is not
C26_Witness ==
    /\ requests = 3
    /\ Len(query_history) = 2
    /\ query_history[1].natural_query = TooLongText
    /\ query_history[1].sql_query = FallbackSql
    /\ query_history[1].confidence = FallbackConfidence
    /\ query_history[1].success
    /\ query_history[2].natural_query = "Orders updated after 2024-01-01"
    /\ ~Verdicts[query_history[2].sql_query].is_valid
    /\ ~query_history[2].success
    /\ query_history[2].row_count = 0
    /\ sql_text = "SELECT * FROM customers"
    /\ exec_metadata.success

(***************************************************************************)
(* Claims about the tables of a query.                                     *)
(***************************************************************************)
\* the tables whose qualified columns stand outside the FROM clause of a
\* query: in its select list, aggregation function, GROUP BY and WHERE
TablesUsed(sql) ==
    LET from == Find(sql, " FROM ", 1)
        behind == FirstOf(sql, " GROUP BY ", " WHERE ")
        outside == Slice(sql, 1, from)
                   \o (IF behind = 0 THEN "" ELSE Slice(sql, behind, Len(sql)))
    IN  {t \in TableNames : Contains(outside, t \o ".")}

\* the main table and the joined tables of the FROM clause of a query
TablesFrom(sql) ==
    {t \in TableNames :
        \/ FromOf(sql) = t
        \/ StartsWith(FromOf(sql), t \o " ")
        \/ Contains(FromOf(sql), "JOIN " \o t \o " ")}

\* C27: every table whose qualified column stands in the select list, the
\* aggregation function, the GROUP BY column or a WHERE predicate of a query
\* parse_query returns also stands in the FROM clause of that query.
C27_TablesInFrom ==
    Parsed => TablesUsed(parsed.sql_query) \subseteq TablesFrom(parsed.sql_query)

C29_NeverOrderItems ==
    /\ \A k \in 1..Len(entity_mappings[4].names) :
           Contains(entity_mappings[4].names[k], "item")
    /\ OnNormalPath =>
           /\ parsed.metadata.main_table # "order_items"
           /\ AnyIn(entity_mappings[4].names, parsed.metadata.processed_query)
                  => parsed.metadata.main_table \in {"customers", "products"}

\* a text with the phrase "order items" and no customers synonym
C29_Witness ==
    /\ OnNormalPath
    /\ nl_text = "Show order items"
    /\ entity_mappings[4].table = "order_items"
    /\ parsed.metadata.main_table = "products"

\* the gate finds a text valid, and the text starts with SELECT, holds no
\* deny-listed keyword and has as many '(' as ')'
PassesGate(sql) ==
    /\ validate_query(sql) = Verdict(TRUE, MsgValid)
    /\ StartsWith(sql, "SELECT ")
    /\ BlockedIn(sql) = {}
    /\ Count(sql, "(") = Count(sql, ")")

FallbackPassesGate == PassesGate(FallbackSql)

\* C30: with the regex strategy every SQL text parse_query returns, on the
\* normal path and on the fallback path, is found valid by validate_query:
\* it starts with SELECT, has no deny-listed keyword as a substring and has
\* balanced parentheses.
C30_TranslationsPassGate ==
    Parsed /\ ~use_spacy =>
        IF parsed.sql_query = FallbackSql THEN FallbackPassesGate
        ELSE PassesGate(parsed.sql_query)

\* a question with the word "updated" and a date: the query holds the date,
\* nothing of "updated", and passes the gate
C30_Witness ==
    /\ OnSelectPath
    /\ ~use_spacy
    /\ nl_text = "Orders updated after 2024-01-01"
    /\ BlockedIn(nl_text) = {"UPDATE"}
    /\ Contains(parsed.sql_query, "orders.order_date > '2024-01-01'")
    /\ validate_query(parsed.sql_query).is_valid

====
